---- MODULE Spec2Model ----
(***************************************************************************)
(* A model of beancount/ingest/rule.py: the RuleMeta value object, the     *)
(* Ruler engine built from a YAML configuration, Ruler.garther_accounts,   *)
(* and the two-pass Ruler.match with its per-rule predicate Ruler._match;  *)
(* and of beancount/ingest/similar.py: find_similar_entries with the       *)
(* SimilarityComparator and the NaiveComparator.                           *)
(*                                                                         *)
(* Python values are tagged tuples, so that None, the empty string, other  *)
(* strings, numbers and booleans stay distinct and "truthiness" and        *)
(* "is None" are different tests, as they are in the source.  A Python     *)
(* string is the sequence of its code points.  A dict is either a TLA+     *)
(* function whose DOMAIN is its key set (the configuration) or, where the  *)
(* iteration order matters (the record handed to match), a sequence of     *)
(* <<key, value>> pairs in insertion order.                                *)
(***************************************************************************)
EXTENDS Integers, Sequences, FiniteSets, TLC

VARIABLES
    fileExists,   \* path.exists(filename)
    config,       \* the parsed YAML document (yaml.load)
    ruler,        \* "none" | "constructed" | "failed": outcome of Ruler.__init__
    initError,    \* the exception Ruler.__init__ raised, or "none"
    rules,        \* self.rules: the RuleMeta objects, in list order
    pc,           \* per caller: position in the operation it is running
    meta,         \* per caller: the record passed to match
    func_map,     \* per caller: the func_map argument of match
    ans,          \* per caller: the working RuleMeta result of match
    idx,          \* per caller: index of the rule the current loop is at
    ret,          \* per caller: what the last finished operation returned
    err,          \* per caller: the exception the last operation raised
    op,           \* per caller: the operation it last started
    entries,        \* find_similar_entries: the entries argument
    source_entries, \* find_similar_entries: the source_entries argument
    comparator,     \* find_similar_entries: the comparator argument
    window_days,    \* find_similar_entries: the window_days argument
    duplicates,     \* find_similar_entries: the list of pairs it builds
    simpc,          \* position in find_similar_entries or a comparator call
    entry_i,        \* index in entries of the outer loop's entry
    source_i,       \* index in source_entries of the inner loop's source_entry
    entry1,         \* NaiveComparator.__call__: the candidate transaction
    entry2,         \* NaiveComparator.__call__: the existing transaction
    verdict         \* what the last comparator call returned

ruleVars == <<fileExists, config, ruler, initError, rules,
              pc, meta, func_map, ans, idx, ret, err, op>>

simVars == <<entries, source_entries, comparator, window_days, duplicates,
             simpc, entry_i, source_i, entry1, entry2, verdict>>

vars == <<fileExists, config, ruler, initError, rules,
          pc, meta, func_map, ans, idx, ret, err, op,
          entries, source_entries, comparator, window_days, duplicates,
          simpc, entry_i, source_i, entry1, entry2, verdict>>

(***************************************************************************)
(* Python values                                                           *)
(***************************************************************************)
None == <<"none">>
Str(s) == <<"str", s>>
Num(n) == <<"int", n>>
Bool(b) == <<"bool", b>>

IsNone(v) == v[1] = "none"
IsStr(v) == v[1] = "str"

\* bool(v): None, "", 0 and False are falsy.
Truthy(v) ==
    CASE v[1] = "none" -> FALSE
      [] v[1] = "str" -> v[2] # <<>>
      [] v[1] = "int" -> v[2] # 0
      [] v[1] = "bool" -> v[2]

\* The strings of the configurations and records, as code points.
s_empty == Str(<<>>)
s_mike == Str(<<109,105,107,101>>)
s_jim == Str(<<106,105,109>>)
s_mike_jim == Str(<<109,105,107,101,44,32,106,105,109>>)
s_comma == Str(<<44>>)
s_foo == Str(<<102,111,111>>)
s_bar == Str(<<98,97,114>>)
s_foobar == Str(<<102,111,111,98,97,114>>)
s_foobaz == Str(<<102,111,111,98,97,122>>)
s_wechat == Str(<<119,101,99,104,97,116>>)
s_alipay == Str(<<97,108,105,112,97,121>>)
Assets_FIXME == Str(<<65,115,115,101,116,115,58,70,73,88,77,69>>)
Expenses_FIXME == Str(<<69,120,112,101,110,115,101,115,58,70,73,88,77,69>>)
Assets_Bank_CCB == Str(<<65,115,115,101,116,115,58,66,97,110,107,58,67,67,66>>)
Assets_Wechat == Str(<<65,115,115,101,116,115,58,87,101,99,104,97,116>>)
Assets_Alipay == Str(<<65,115,115,101,116,115,58,65,108,105,112,97,121>>)
Expenses_Misc == Str(<<69,120,112,101,110,115,101,115,58,77,105,115,99>>)

(***************************************************************************)
(* RuleMeta                                                                *)
(***************************************************************************)
RULE_PAYEE == "payee"
RULE_ITEM == "item"
RULE_TXN_TYPE == "txn_type"
RULE_TXN_METHOD == "txn_method"
RULE_TXN_INOUT == "txn_inout"
RULE_TXN_INPUT == "txn_input"
RULE_TXN_OUTPUT == "txn_output"
RULE_TXN_STATUS == "txn_status"
RULE_TXN_META == "txn_meta"
RULE_TXN_MASK == "txn_mask"
RULE_TXN_EXCLUDE == "txn_exclude"
RULE_START_TIME == "start_time"
RULE_END_TIME == "end_time"
RULE_MINUS_ACCOUNT == "method_account"
RULE_PLUS_ACCOUNT == "target_account"
RULE_SEPERATOR == "seperator"

\* RuleMeta.get_fields(): the enumeration order of the fields.
get_fields ==
    << RULE_PAYEE, RULE_ITEM, RULE_TXN_TYPE, RULE_TXN_METHOD,
       RULE_TXN_INOUT, RULE_START_TIME, RULE_END_TIME, RULE_MINUS_ACCOUNT,
       RULE_PLUS_ACCOUNT, RULE_SEPERATOR, RULE_TXN_STATUS, RULE_TXN_META,
       RULE_TXN_INPUT, RULE_TXN_OUTPUT, RULE_TXN_MASK, RULE_TXN_EXCLUDE >>

FieldSet == {get_fields[i] : i \in 1..Len(get_fields)}

\* RuleMeta.__init__: every attribute, is_mask included, starts as None.
RuleMeta == [a \in FieldSet \cup {"is_mask"} |-> None]

\* Mutant of is_txn_method_loop: a truthy field other than the two is
\* skipped instead of ending the loop with False.
RECURSIVE is_txn_method_loop_no_return(_, _, _)
is_txn_method_loop_no_return(self, i, n) ==
    IF i > Len(get_fields) THEN n = 2
    ELSE LET k == get_fields[i] IN
         IF Truthy(self[k]) /\ (k = RULE_TXN_METHOD \/ k = RULE_MINUS_ACCOUNT)
         THEN is_txn_method_loop_no_return(self, i + 1, n + 1)
         ELSE is_txn_method_loop_no_return(self, i + 1, n)

\* RuleMeta.is_txn_method: the loop over get_fields from position i on, with
\* the counter ans; a truthy field other than the two returns False at once.
RECURSIVE is_txn_method_loop(_, _, _)
is_txn_method_loop(self, i, n) ==
    IF i > Len(get_fields) THEN n = 2
    ELSE LET k == get_fields[i] IN
         IF Truthy(self[k])
         THEN IF k = RULE_TXN_METHOD \/ k = RULE_MINUS_ACCOUNT
              THEN is_txn_method_loop(self, i + 1, n + 1)
              ELSE FALSE
         ELSE is_txn_method_loop(self, i + 1, n)

is_txn_method(self) == is_txn_method_loop(self, 1, 0)

\* Mutant of check_count: "not getattr(self, k)" in place of "is None".
RECURSIVE check_count_truthy(_, _)
check_count_truthy(self, i) ==
    IF i > Len(get_fields) THEN 0
    ELSE LET k == get_fields[i] IN
         IF k = RULE_PLUS_ACCOUNT \/ k = RULE_MINUS_ACCOUNT
         THEN check_count_truthy(self, i + 1)
         ELSE (IF ~ Truthy(self[k]) THEN 1 ELSE 0) + check_count_truthy(self, i + 1)

\* RuleMeta.check: c counts the non-account fields that are None.
RECURSIVE check_count(_, _)
check_count(self, i) ==
    IF i > Len(get_fields) THEN 0
    ELSE LET k == get_fields[i] IN
         IF k = RULE_PLUS_ACCOUNT \/ k = RULE_MINUS_ACCOUNT
         THEN check_count(self, i + 1)
         ELSE (IF IsNone(self[k]) THEN 1 ELSE 0) + check_count(self, i + 1)

check(self) == ~ (check_count(self, 1) = Len(get_fields) - 2)

(***************************************************************************)
(* Strings: the str methods _match and garther_accounts rely on            *)
(***************************************************************************)
\* "val in v" on two strings: val occurs as a contiguous slice of v.
Contains(v, val) ==
    \E i \in 0..(Len(v) - Len(val)) : SubSeq(v, i + 1, i + Len(val)) = val

\* Position of the first occurrence of sep in s at or after i, 0 if none.
RECURSIVE FindFrom(_, _, _)
FindFrom(s, sep, i) ==
    IF i + Len(sep) - 1 > Len(s) THEN 0
    ELSE IF SubSeq(s, i, i + Len(sep) - 1) = sep THEN i
    ELSE FindFrom(s, sep, i + 1)

\* str.split(sep) for a non-empty sep: the pieces between occurrences.
RECURSIVE Split(_, _)
Split(s, sep) ==
    LET at == FindFrom(s, sep, 1) IN
    IF at = 0 THEN <<s>>
    ELSE <<SubSeq(s, 1, at - 1)>>
         \o Split(SubSeq(s, at + Len(sep), Len(s)), sep)

\* The ASCII code points str.strip() removes.
Whitespace == {9, 10, 11, 12, 13, 32}

RECURSIVE LStrip(_)
LStrip(s) ==
    IF s # <<>> /\ Head(s) \in Whitespace THEN LStrip(Tail(s)) ELSE s

RECURSIVE RStrip(_)
RStrip(s) ==
    IF s # <<>> /\ s[Len(s)] \in Whitespace
    THEN RStrip(SubSeq(s, 1, Len(s) - 1)) ELSE s

Strip(s) == RStrip(LStrip(s))

\* a < b on two strings: lexicographic by code point.
RECURSIVE StrLess(_, _)
StrLess(a, b) ==
    IF b = <<>> THEN FALSE
    ELSE IF a = <<>> THEN TRUE
    ELSE IF Head(a) # Head(b) THEN Head(a) < Head(b)
    ELSE StrLess(Tail(a), Tail(b))

(***************************************************************************)
(* The record passed to match and the field-name resolver                  *)
(***************************************************************************)
\* key in meta
HasKey(m, key) == \E j \in 1..Len(m) : m[j][1] = key

\* meta[key], for a key the dict holds
Lookup(m, key) == m[CHOOSE j \in 1..Len(m) : m[j][1] = key][2]

\* What a resolver returns for a field it does not map (None).
NoKey == "<None>"

\* bool(func_map(k)): None and the empty string are falsy.
KeyTruthy(key) == key # NoKey /\ key # ""

\* match's "def f(x): return x", used when func_map is None.
IdentityMap == [isNone |-> FALSE, map |-> [k \in FieldSet |-> k]]

\* func_map=None as passed by the caller.
NoFuncMap == [isNone |-> TRUE, map |-> [k \in FieldSet |-> NoKey]]

(***************************************************************************)
(* Ruler._match                                                            *)
(***************************************************************************)
\* Mutant of Candidates: the pieces of the split are not stripped.
Candidates_no_strip(rule, values) ==
    IF Truthy(rule[RULE_SEPERATOR])
    THEN IF ~ IsStr(values) THEN [exc |-> "AttributeError", vals |-> <<>>]
         ELSE IF ~ IsStr(rule[RULE_SEPERATOR])
         THEN [exc |-> "TypeError", vals |-> <<>>]
         ELSE LET parts == Split(values[2], rule[RULE_SEPERATOR][2]) IN
              [exc |-> "none",
               vals |-> [n \in 1..Len(parts) |-> Str(parts[n])]]
    ELSE [exc |-> "none", vals |-> <<values>>]

\* Lines 147-150: the candidate values of one field.  str.split exists only
\* on a string and takes only a string separator.
Candidates(rule, values) ==
    IF Truthy(rule[RULE_SEPERATOR])
    THEN IF ~ IsStr(values) THEN [exc |-> "AttributeError", vals |-> <<>>]
         ELSE IF ~ IsStr(rule[RULE_SEPERATOR])
         THEN [exc |-> "TypeError", vals |-> <<>>]
         ELSE LET parts == Split(values[2], rule[RULE_SEPERATOR][2]) IN
              [exc |-> "none",
               vals |-> [n \in 1..Len(parts) |-> Str(Strip(parts[n]))]]
    ELSE [exc |-> "none", vals |-> <<values>>]

\* Mutant of MetaPair: a value that holds the exclusion leaves is_mask as an
\* earlier call wrote it instead of setting it to False.
MetaPair_sticky(rule, k, v, val, st) ==
    IF IsStr(v) /\ IsStr(val) /\ Contains(v[2], val[2])
    THEN IF k = RULE_TXN_MASK
         THEN LET exclude == rule[RULE_TXN_EXCLUDE] IN
              IF Truthy(exclude) /\ ~ IsStr(exclude)
              THEN [st EXCEPT !.fc = TRUE, !.exc = "TypeError"]
              ELSE IF Truthy(exclude) /\ Contains(v[2], exclude[2])
              THEN [st EXCEPT !.fc = TRUE]
              ELSE [st EXCEPT !.fc = TRUE, !.is_mask = Bool(TRUE)]
         ELSE [st EXCEPT !.fc = TRUE]
    ELSE st

\* Mutant of MetaPair: a value that holds the exclusion does not take back a
\* mask state an earlier value of the scan set to True.
MetaPair_any(rule, k, v, val, st) ==
    IF IsStr(v) /\ IsStr(val) /\ Contains(v[2], val[2])
    THEN IF k = RULE_TXN_MASK
         THEN LET exclude == rule[RULE_TXN_EXCLUDE] IN
              IF Truthy(exclude) /\ ~ IsStr(exclude)
              THEN [st EXCEPT !.fc = TRUE, !.exc = "TypeError"]
              ELSE IF Truthy(exclude) /\ Contains(v[2], exclude[2])
              THEN [st EXCEPT !.fc = TRUE,
                              !.is_mask = IF st.fc /\ st.is_mask = Bool(TRUE)
                                          THEN Bool(TRUE) ELSE Bool(FALSE)]
              ELSE [st EXCEPT !.fc = TRUE, !.is_mask = Bool(TRUE)]
         ELSE [st EXCEPT !.fc = TRUE]
    ELSE st

\* Lines 156-163: one (record value v, candidate val) pair of the txn_meta /
\* txn_mask scan.  st carries field_check, rule.is_mask and a raised error.
MetaPair(rule, k, v, val, st) ==
    IF IsStr(v) /\ IsStr(val) /\ Contains(v[2], val[2])
    THEN IF k = RULE_TXN_MASK
         THEN LET exclude == rule[RULE_TXN_EXCLUDE] IN
              IF Truthy(exclude) /\ ~ IsStr(exclude)
              THEN [st EXCEPT !.fc = TRUE, !.exc = "TypeError"]
              ELSE IF Truthy(exclude) /\ Contains(v[2], exclude[2])
              THEN [st EXCEPT !.fc = TRUE, !.is_mask = Bool(FALSE)]
              ELSE [st EXCEPT !.fc = TRUE, !.is_mask = Bool(TRUE)]
         ELSE [st EXCEPT !.fc = TRUE]
    ELSE st

\* Lines 154-155: for _, v in meta.items(): for val in values.
RECURSIVE MetaScan(_, _, _, _, _, _, _)
MetaScan(rule, k, m, vals, j, n, st) ==
    IF st.exc # "none" \/ j > Len(m) THEN st
    ELSE IF n > Len(vals) THEN MetaScan(rule, k, m, vals, j + 1, 1, st)
    ELSE MetaScan(rule, k, m, vals, j, n + 1,
                  MetaPair(rule, k, m[j][2], vals[n], st))

\* Mutant of EqScan: a candidate that occurs inside the record's value counts
\* as equal to it.
RECURSIVE EqScan_contains(_, _, _, _, _, _)
EqScan_contains(k, m, fm, vals, n, st) ==
    IF n > Len(vals) THEN st
    ELSE IF ~ fm.isNone /\ KeyTruthy(fm.map[k])
         THEN IF ~ HasKey(m, fm.map[k]) THEN [st EXCEPT !.exc = "KeyError"]
              ELSE IF \/ vals[n] = Lookup(m, fm.map[k])
                      \/ /\ IsStr(vals[n])
                         /\ IsStr(Lookup(m, fm.map[k]))
                         /\ Contains(Lookup(m, fm.map[k])[2], vals[n][2])
              THEN [st EXCEPT !.fc = TRUE]
              ELSE EqScan_contains(k, m, fm, vals, n + 1, st)
         ELSE EqScan_contains(k, m, fm, vals, n + 1, st)

\* Lines 165-168: the equality-type fields; the first equal candidate ends
\* the loop.  meta[...] raises KeyError for a key the record lacks.
RECURSIVE EqScan(_, _, _, _, _, _)
EqScan(k, m, fm, vals, n, st) ==
    IF n > Len(vals) THEN st
    ELSE IF ~ fm.isNone /\ KeyTruthy(fm.map[k])
         THEN IF ~ HasKey(m, fm.map[k]) THEN [st EXCEPT !.exc = "KeyError"]
              ELSE IF vals[n] = Lookup(m, fm.map[k])
              THEN [st EXCEPT !.fc = TRUE]
              ELSE EqScan(k, m, fm, vals, n + 1, st)
         ELSE EqScan(k, m, fm, vals, n + 1, st)

\* Lines 144-172: one field k with a value that is not None.
FieldCheck(rule, k, m, fm, is_mask) ==
    LET c == Candidates(rule, rule[k])
        st0 == [fc |-> FALSE, is_mask |-> is_mask, exc |-> c.exc]
    IN  IF c.exc # "none" THEN st0
        ELSE IF k = RULE_TXN_META \/ k = RULE_TXN_MASK
        THEN MetaScan(rule, k, m, c.vals, 1, 1, st0)
        ELSE EqScan(k, m, fm, c.vals, 1, st0)

\* Lines 136-175: the loop over the fields from position i on.  The result
\* is the returned boolean, the is_mask the call leaves on the rule, and the
\* exception it raised ("none" when it returned).
RECURSIVE _match_loop(_, _, _, _, _)
_match_loop(rule, m, fm, i, is_mask) ==
    IF i > Len(get_fields)
    THEN [value |-> TRUE, is_mask |-> is_mask, exc |-> "none"]
    ELSE LET k == get_fields[i] IN
         IF \/ k = RULE_MINUS_ACCOUNT
            \/ k = RULE_PLUS_ACCOUNT
            \/ k = RULE_SEPERATOR
            \/ k = RULE_TXN_EXCLUDE
            \/ IsNone(rule[k])
         THEN _match_loop(rule, m, fm, i + 1, is_mask)
         ELSE LET st == FieldCheck(rule, k, m, fm, is_mask) IN
              IF st.exc # "none"
              THEN [value |-> FALSE, is_mask |-> st.is_mask, exc |-> st.exc]
              ELSE IF ~ st.fc
              THEN [value |-> FALSE, is_mask |-> st.is_mask, exc |-> "none"]
              ELSE _match_loop(rule, m, fm, i + 1, st.is_mask)

_match(rule, m, fm) == _match_loop(rule, m, fm, 1, rule["is_mask"])

(***************************************************************************)
(* Configurations (the YAML documents a Ruler is built from)               *)
(***************************************************************************)
_DEFAULT_MINUS == "default_method_account"
_DEFAULT_PLUS == "default_target_account"

\* Longest rule list of a configuration.
MaxRules == 2

\* Marks a top-level key the document does not have.
Absent == <<"absent">>

\* The entries of a configuration's "rules" list.  The first two are those of
\* rule_test.py; the others add a second target for the same payee, two
\* method rules for one txn_method, a mask rule with an exclusion, a
\* separator rule with an empty account, a rule whose payee is the empty
\* string, and three entries with no usable predicate (accounts only, only
\* keys that are not rule fields, a null payee).
rule_mike == [payee |-> s_mike]
rule_jim ==
    [payee |-> s_jim, method_account |-> Assets_Bank_CCB,
     target_account |-> Assets_Wechat]
rule_jim_misc == [payee |-> s_jim, target_account |-> Expenses_Misc]
rule_wechat == [txn_method |-> s_wechat, method_account |-> Assets_Wechat]
rule_wechat2 == [txn_method |-> s_wechat, method_account |-> Assets_Alipay]
rule_mask ==
    [txn_mask |-> s_foo, txn_exclude |-> s_bar,
     method_account |-> Assets_Alipay, target_account |-> Expenses_Misc]
rule_sep ==
    [payee |-> s_mike_jim, seperator |-> s_comma, target_account |-> s_empty]
rule_empty_payee ==
    [payee |-> s_empty, txn_method |-> s_wechat,
     method_account |-> Assets_Bank_CCB]
rule_accounts_only ==
    [method_account |-> Assets_Alipay, target_account |-> Expenses_Misc]
rule_unknown_keys == [type |-> Str(<<47>>), targetAccount |-> Expenses_Misc]
rule_null_payee == [payee |-> None, target_account |-> Expenses_Misc]

RuleEntries ==
    { rule_mike, rule_jim, rule_jim_misc, rule_wechat, rule_wechat2,
      rule_mask, rule_sep, rule_empty_payee, rule_accounts_only,
      rule_unknown_keys, rule_null_payee }

RuleLists == UNION {[1..n -> RuleEntries] : n \in 0..MaxRules}

\* The two defaults of a document: present and non-empty, empty, or absent.
DefaultPairs ==
    { <<Assets_FIXME, Expenses_FIXME>>,
      <<Absent, Expenses_FIXME>>, <<Assets_FIXME, Absent>>,
      <<s_empty, Expenses_FIXME>>, <<Assets_FIXME, s_empty>> }

EmptyDoc == [k \in {} |-> None]

\* The top-level defaults of a document.
YamlDefaults(dm, dt) ==
    (IF dm = Absent THEN EmptyDoc ELSE (_DEFAULT_MINUS :> dm))
    @@ (IF dt = Absent THEN EmptyDoc ELSE (_DEFAULT_PLUS :> dt))

\* A document with the given defaults and rules list.
YamlDoc(dm, dt, rs) == YamlDefaults(dm, dt) @@ ("rules" :> rs)

\* The documents: every pair of defaults with every rules list, and one
\* document without the "rules" key.
Documents ==
    {YamlDoc(d[1], d[2], rs) : d \in DefaultPairs, rs \in RuleLists}
    \cup {YamlDefaults(Assets_FIXME, Expenses_FIXME)}

(***************************************************************************)
(* Records and resolvers handed to match                                   *)
(***************************************************************************)
m_empty == << >>
m_jim == << <<"payee", s_jim>> >>
m_mike == << <<"payee", s_mike>> >>
m_mike_jim == << <<"payee", s_mike_jim>> >>
m_jim_wechat == << <<"payee", s_jim>>, <<"txn_method", s_wechat>> >>
m_jim_alipay == << <<"payee", s_jim>>, <<"txn_method", s_alipay>> >>
m_foobaz ==
    << <<"payee", s_jim>>, <<"txn_method", s_wechat>>, <<"note", s_foobaz>> >>
m_foobar ==
    << <<"payee", s_jim>>, <<"txn_method", s_wechat>>, <<"note", s_foobar>> >>
m_bar_baz ==
    << <<"payee", s_mike>>, <<"note", s_foobar>>, <<"memo", s_foobaz>> >>
m_baz_bar ==
    << <<"payee", s_mike>>, <<"note", s_foobaz>>, <<"memo", s_foobar>> >>
m_cols ==
    << <<"counterparty", s_jim>>, <<"channel", s_wechat>>,
       <<"amount", Num(5)>> >>

Records ==
    { m_empty, m_jim, m_mike, m_mike_jim, m_jim_wechat, m_jim_alipay,
      m_foobaz, m_foobar, m_bar_baz, m_baz_bar, m_cols }

\* A resolver for records with the column names of m_cols; it returns None
\* for every other field.
ColsMap ==
    [isNone |-> FALSE,
     map |-> [k \in FieldSet |->
                 IF k = RULE_PAYEE THEN "counterparty"
                 ELSE IF k = RULE_TXN_METHOD THEN "channel"
                 ELSE NoKey]]

\* The calls of match: every record with func_map left out, and the column
\* resolver with the record it is written for, with a record that lacks its
\* columns and with the empty record.
Calls ==
    {<<m, NoFuncMap>> : m \in Records}
    \cup {<<m, ColsMap>> : m \in {m_cols, m_jim, m_empty}}

(***************************************************************************)
(* Ruler.__init__ and Ruler._convert_to_rules                              *)
(***************************************************************************)
\* Lines 126-130: a RuleMeta with the recognised keys of one entry copied.
ConvertRule(entry) ==
    [a \in FieldSet \cup {"is_mask"} |->
        IF a \in FieldSet /\ a \in DOMAIN entry THEN entry[a] ELSE None]

\* Lines 124-133: one RuleMeta per entry, in order.
_convert_to_rules(yaml_config) ==
    [n \in 1..Len(yaml_config["rules"]) |->
        ConvertRule(yaml_config["rules"][n])]

\* Lines 92-99: the exception the constructor raises for this file, or
\* "none" when it returns an engine.
InitOutcome(exists, doc) ==
    IF ~ exists THEN "Exception"
    ELSE IF "rules" \notin DOMAIN doc THEN "Exception"
    ELSE IF \E n \in 1..Len(doc["rules"]) :
               ~ check(_convert_to_rules(doc)[n])
    THEN "AssertionError"
    ELSE "none"

(***************************************************************************)
(* Ruler.garther_accounts                                                  *)
(***************************************************************************)
\* Mutant of garther_loop: the target accounts are left out.
RECURSIVE garther_loop_no_plus(_, _, _)
garther_loop_no_plus(rs, i, acc) ==
    IF i > Len(rs) THEN acc
    ELSE LET minus == rs[i][RULE_MINUS_ACCOUNT]
         IN  garther_loop_no_plus(rs, i + 1,
                 IF Truthy(minus) THEN acc \cup {minus} ELSE acc)

\* Lines 103-109: the loop over the rules from position i on; acc is the set.
RECURSIVE garther_loop(_, _, _)
garther_loop(rs, i, acc) ==
    IF i > Len(rs) THEN acc
    ELSE LET minus == rs[i][RULE_MINUS_ACCOUNT]
             plus == rs[i][RULE_PLUS_ACCOUNT]
             a1 == IF Truthy(minus) /\ minus \notin acc
                   THEN acc \cup {minus} ELSE acc
             a2 == IF Truthy(plus) /\ plus \notin a1
                   THEN a1 \cup {plus} ELSE a1
         IN  garther_loop(rs, i + 1, a2)

\* list.sort() on a list of strings: ascending, lexicographic.
RECURSIVE SortStrings(_)
SortStrings(S) ==
    IF S = {} THEN << >>
    ELSE LET x == CHOOSE x \in S : \A y \in S \ {x} : StrLess(x[2], y[2])
         IN  <<x>> \o SortStrings(S \ {x})

\* Lines 101-112.  config[...] raises KeyError for a missing default.
garther_accounts(doc, rs) ==
    IF _DEFAULT_MINUS \notin DOMAIN doc \/ _DEFAULT_PLUS \notin DOMAIN doc
    THEN [exc |-> "KeyError", value |-> << >>]
    ELSE [exc |-> "none",
          value |-> SortStrings(
              garther_loop(rs, 1, {doc[_DEFAULT_MINUS], doc[_DEFAULT_PLUS]}))]

(***************************************************************************)
(* Ruler.match, step by step                                               *)
(***************************************************************************)
\* Mutant of MatchInit: the two defaults are swapped.
MatchInit_swapped(doc) ==
    IF _DEFAULT_MINUS \notin DOMAIN doc \/ _DEFAULT_PLUS \notin DOMAIN doc
    THEN [exc |-> "KeyError", ans |-> RuleMeta]
    ELSE LET a == [RuleMeta EXCEPT ![RULE_MINUS_ACCOUNT] = doc[_DEFAULT_PLUS],
                                   ![RULE_PLUS_ACCOUNT] = doc[_DEFAULT_MINUS]]
         IN  IF Truthy(a[RULE_MINUS_ACCOUNT]) /\ Truthy(a[RULE_PLUS_ACCOUNT])
             THEN [exc |-> "none", ans |-> a]
             ELSE [exc |-> "AssertionError", ans |-> a]

\* Mutant of MatchInit: the two asserts are missing.
MatchInit_no_assert(doc) ==
    IF _DEFAULT_MINUS \notin DOMAIN doc \/ _DEFAULT_PLUS \notin DOMAIN doc
    THEN [exc |-> "KeyError", ans |-> RuleMeta]
    ELSE [exc |-> "none",
          ans |-> [RuleMeta EXCEPT ![RULE_MINUS_ACCOUNT] = doc[_DEFAULT_MINUS],
                                   ![RULE_PLUS_ACCOUNT] = doc[_DEFAULT_PLUS]]]

\* Lines 197-202: the result starts from the two defaults, which must be
\* present (KeyError) and truthy (AssertionError).
MatchInit(doc) ==
    IF _DEFAULT_MINUS \notin DOMAIN doc \/ _DEFAULT_PLUS \notin DOMAIN doc
    THEN [exc |-> "KeyError", ans |-> RuleMeta]
    ELSE LET a == [RuleMeta EXCEPT ![RULE_MINUS_ACCOUNT] = doc[_DEFAULT_MINUS],
                                   ![RULE_PLUS_ACCOUNT] = doc[_DEFAULT_PLUS]]
         IN  IF Truthy(a[RULE_MINUS_ACCOUNT]) /\ Truthy(a[RULE_PLUS_ACCOUNT])
             THEN [exc |-> "none", ans |-> a]
             ELSE [exc |-> "AssertionError", ans |-> a]

\* Mutant of MethodStep: the first matching method rule wins; a later one
\* no longer replaces its account.
MethodStep_first(a, rule, m, fm) ==
    IF ~ check(rule) THEN [exc |-> "AssertionError", ans |-> a]
    ELSE IF ~ is_txn_method(rule) THEN [exc |-> "none", ans |-> a]
    ELSE LET key == RULE_TXN_METHOD
             method == rule[key]
         IN  IF ~ fm.isNone /\ KeyTruthy(fm.map[key])
             THEN IF ~ HasKey(m, fm.map[key])
                  THEN [exc |-> "KeyError", ans |-> a]
                  ELSE IF /\ method = Lookup(m, fm.map[key])
                          /\ a[RULE_MINUS_ACCOUNT] = config[_DEFAULT_MINUS]
                  THEN [exc |-> "none",
                        ans |-> [a EXCEPT ![RULE_MINUS_ACCOUNT] =
                                              rule[RULE_MINUS_ACCOUNT]]]
                  ELSE [exc |-> "none", ans |-> a]
             ELSE [exc |-> "none", ans |-> a]

\* Lines 206-212: one rule of the first loop.
MethodStep(a, rule, m, fm) ==
    IF ~ check(rule) THEN [exc |-> "AssertionError", ans |-> a]
    ELSE IF ~ is_txn_method(rule) THEN [exc |-> "none", ans |-> a]
    ELSE LET key == RULE_TXN_METHOD
             method == rule[key]
         IN  IF ~ fm.isNone /\ KeyTruthy(fm.map[key])
             THEN IF ~ HasKey(m, fm.map[key])
                  THEN [exc |-> "KeyError", ans |-> a]
                  ELSE IF method = Lookup(m, fm.map[key])
                  THEN [exc |-> "none",
                        ans |-> [a EXCEPT ![RULE_MINUS_ACCOUNT] =
                                              rule[RULE_MINUS_ACCOUNT]]]
                  ELSE [exc |-> "none", ans |-> a]
             ELSE [exc |-> "none", ans |-> a]

\* Mutant of ApplyAccounts: the accounts are overwritten without the
\* "if method_account:" and "if target_account:" tests.
ApplyAccounts_unguarded(a, rule) ==
    [k \in DOMAIN a |-> IF k \in FieldSet THEN rule[k] ELSE a[k]]

\* Mutant of ApplyAccounts: a matched rule's method_account replaces the
\* default only, never the account a method rule wrote in the first loop.
ApplyAccounts_keep_method(a, rule) ==
    [k \in DOMAIN a |->
        IF k = RULE_MINUS_ACCOUNT
        THEN IF Truthy(rule[k]) /\ a[k] = config[_DEFAULT_MINUS]
             THEN rule[k] ELSE a[k]
        ELSE IF k = RULE_PLUS_ACCOUNT
        THEN IF Truthy(rule[k]) THEN rule[k] ELSE a[k]
        ELSE IF k \in FieldSet THEN rule[k]
        ELSE a[k]]

\* Lines 235-248: a matched rule that does not mask: its truthy accounts and
\* all its other fields go onto the result.
ApplyAccounts(a, rule) ==
    [k \in DOMAIN a |->
        IF k = RULE_MINUS_ACCOUNT
        THEN IF Truthy(rule[k]) THEN rule[k] ELSE a[k]
        ELSE IF k = RULE_PLUS_ACCOUNT
        THEN IF Truthy(rule[k]) THEN rule[k] ELSE a[k]
        ELSE IF k \in FieldSet THEN rule[k]
        ELSE a[k]]

\* Mutant of ApplyRule: the mask test comes after the rule's accounts and
\* fields were put on the result.
ApplyRule_late_break(a, rule) ==
    LET a1 == [a EXCEPT !["is_mask"] = rule["is_mask"]] IN
    [stop |-> Truthy(a1["is_mask"]), ans |-> ApplyAccounts(a1, rule)]

\* Mutant of ApplyRule: the scan ends at the first matched rule, mask or not.
ApplyRule_first_match(a, rule) ==
    LET a1 == [a EXCEPT !["is_mask"] = rule["is_mask"]] IN
    IF Truthy(a1["is_mask"])
    THEN [stop |-> TRUE, ans |-> a1]
    ELSE [stop |-> TRUE, ans |-> ApplyAccounts(a1, rule)]

\* Lines 231-248: what a matched rule does to the result; stop is the break.
ApplyRule(a, rule) ==
    LET a1 == [a EXCEPT !["is_mask"] = rule["is_mask"]] IN
    IF Truthy(a1["is_mask"])
    THEN [stop |-> TRUE, ans |-> a1]
    ELSE [stop |-> FALSE, ans |-> ApplyAccounts(a1, rule)]

\* Lines 214-215 and 254-255.
AccountsAsserted(a) ==
    Truthy(a[RULE_MINUS_ACCOUNT]) /\ Truthy(a[RULE_PLUS_ACCOUNT])

Callers == {"c1", "c2"}

\* One caller at a time uses the engine.
SeqCallers == {"c1"}

NoResult == <<"no result">>

\* A missing argument or value of the similar.py operations.
NoEntry == [type |-> "none"]

\* No operation of similar.py has been called.
SimIdle ==
    /\ entries = << >>
    /\ source_entries = [isNone |-> TRUE, list |-> << >>]
    /\ comparator = "None"
    /\ window_days = 0
    /\ duplicates = << >>
    /\ simpc = "idle"
    /\ entry_i = 0
    /\ source_i = 0
    /\ entry1 = NoEntry
    /\ entry2 = NoEntry
    /\ verdict = NoResult

Init ==
    /\ \/ fileExists = FALSE /\ config = EmptyDoc
       \/ fileExists = TRUE /\ config \in Documents
    /\ ruler = "none"
    /\ initError = "none"
    /\ rules = << >>
    /\ pc = [c \in Callers |-> "idle"]
    /\ meta = [c \in Callers |-> m_empty]
    /\ func_map = [c \in Callers |-> NoFuncMap]
    /\ ans = [c \in Callers |-> RuleMeta]
    /\ idx = [c \in Callers |-> 0]
    /\ ret = [c \in Callers |-> NoResult]
    /\ err = [c \in Callers |-> "none"]
    /\ op = [c \in Callers |-> "none"]
    /\ SimIdle

\* Ruler(filename)
Construct ==
    /\ ruler = "none"
    /\ LET e == InitOutcome(fileExists, config) IN
       /\ initError' = e
       /\ ruler' = IF e = "none" THEN "constructed" ELSE "failed"
       /\ rules' = IF e = "none" THEN _convert_to_rules(config) ELSE << >>
    /\ UNCHANGED <<fileExists, config, pc, meta, func_map, ans, idx, ret,
                   err, op>>
    /\ UNCHANGED simVars

Free(c) == pc[c] \in {"idle", "done", "raised"}

\* r.garther_accounts()
GartherAccounts(c) ==
    /\ ruler = "constructed"
    /\ Free(c)
    /\ LET r == garther_accounts(config, rules) IN
       /\ pc' = [pc EXCEPT ![c] = IF r.exc = "none" THEN "done" ELSE "raised"]
       /\ ret' = [ret EXCEPT ![c] = IF r.exc = "none" THEN r.value ELSE NoResult]
       /\ err' = [err EXCEPT ![c] = r.exc]
    /\ op' = [op EXCEPT ![c] = "garther_accounts"]
    /\ meta' = [meta EXCEPT ![c] = m_empty]
    /\ func_map' = [func_map EXCEPT ![c] = NoFuncMap]
    /\ ans' = [ans EXCEPT ![c] = RuleMeta]
    /\ idx' = [idx EXCEPT ![c] = 0]
    /\ UNCHANGED <<fileExists, config, ruler, initError, rules>>
    /\ UNCHANGED simVars

\* Where the first loop stands at index i.
Pass1At(i) == IF i > Len(rules) THEN "p1check" ELSE "pass1"

\* Where the second loop stands at index i.
Pass2At(i) == IF i > Len(rules) THEN "p2check" ELSE "pass2"

\* An exception leaves match: no result.
Raise(c, e) ==
    /\ pc' = [pc EXCEPT ![c] = "raised"]
    /\ err' = [err EXCEPT ![c] = e]
    /\ ret' = [ret EXCEPT ![c] = NoResult]

\* r.match(m, fm), lines 193-202.
MatchStart(c, m, fm) ==
    /\ ruler = "constructed"
    /\ Free(c)
    /\ op' = [op EXCEPT ![c] = "match"]
    /\ meta' = [meta EXCEPT ![c] = m]
    /\ func_map' = [func_map EXCEPT ![c] = IF fm.isNone THEN IdentityMap ELSE fm]
    /\ idx' = [idx EXCEPT ![c] = 1]
    /\ LET r == MatchInit(config) IN
       /\ ans' = [ans EXCEPT ![c] = r.ans]
       /\ IF r.exc = "none"
          THEN /\ pc' = [pc EXCEPT ![c] = Pass1At(1)]
               /\ err' = [err EXCEPT ![c] = "none"]
               /\ ret' = [ret EXCEPT ![c] = NoResult]
          ELSE Raise(c, r.exc)
    /\ UNCHANGED <<fileExists, config, ruler, initError, rules>>
    /\ UNCHANGED simVars

\* Lines 205-212: one iteration of the first loop.
Pass1Step(c) ==
    /\ pc[c] = "pass1"
    /\ LET r == MethodStep(ans[c], rules[idx[c]], meta[c], func_map[c]) IN
       /\ ans' = [ans EXCEPT ![c] = r.ans]
       /\ IF r.exc = "none"
          THEN /\ idx' = [idx EXCEPT ![c] = idx[c] + 1]
               /\ pc' = [pc EXCEPT ![c] = Pass1At(idx[c] + 1)]
               /\ UNCHANGED <<err, ret>>
          ELSE Raise(c, r.exc) /\ UNCHANGED idx
    /\ UNCHANGED <<fileExists, config, ruler, initError, rules, meta,
                   func_map, op>>
    /\ UNCHANGED simVars

\* Lines 214-215: the asserts between the loops.
Pass1End(c) ==
    /\ pc[c] = "p1check"
    /\ IF AccountsAsserted(ans[c])
       THEN /\ pc' = [pc EXCEPT ![c] = Pass2At(1)]
            /\ idx' = [idx EXCEPT ![c] = 1]
            /\ UNCHANGED <<err, ret>>
       ELSE Raise(c, "AssertionError") /\ UNCHANGED idx
    /\ UNCHANGED <<fileExists, config, ruler, initError, rules, meta,
                   func_map, ans, op>>
    /\ UNCHANGED simVars

\* Mutant of Pass2Match: what _match computed for is_mask is not stored on
\* the rule object.
Pass2Match_no_write(c) ==
    /\ pc[c] = "pass2"
    /\ LET rule == rules[idx[c]] IN
       IF is_txn_method(rule)
       THEN /\ idx' = [idx EXCEPT ![c] = idx[c] + 1]
            /\ pc' = [pc EXCEPT ![c] = Pass2At(idx[c] + 1)]
            /\ UNCHANGED <<rules, err, ret>>
       ELSE IF ~ check(rule)
       THEN Raise(c, "AssertionError") /\ UNCHANGED <<rules, idx>>
       ELSE LET r == _match(rule, meta[c], func_map[c]) IN
            /\ UNCHANGED rules
            /\ IF r.exc # "none"
               THEN Raise(c, r.exc) /\ UNCHANGED idx
               ELSE IF r.value
               THEN /\ pc' = [pc EXCEPT ![c] = "apply"]
                    /\ UNCHANGED <<idx, err, ret>>
               ELSE /\ idx' = [idx EXCEPT ![c] = idx[c] + 1]
                    /\ pc' = [pc EXCEPT ![c] = Pass2At(idx[c] + 1)]
                    /\ UNCHANGED <<err, ret>>
    /\ UNCHANGED <<fileExists, config, ruler, initError, meta, func_map,
                   ans, op>>
    /\ UNCHANGED simVars

\* Lines 217-224: one iteration of the second loop up to the call of _match,
\* which writes is_mask on the rule object.
Pass2Match(c) ==
    /\ pc[c] = "pass2"
    /\ LET rule == rules[idx[c]] IN
       IF is_txn_method(rule)
       THEN /\ idx' = [idx EXCEPT ![c] = idx[c] + 1]
            /\ pc' = [pc EXCEPT ![c] = Pass2At(idx[c] + 1)]
            /\ UNCHANGED <<rules, err, ret>>
       ELSE IF ~ check(rule)
       THEN Raise(c, "AssertionError") /\ UNCHANGED <<rules, idx>>
       ELSE LET r == _match(rule, meta[c], func_map[c]) IN
            /\ rules' = [rules EXCEPT ![idx[c]]["is_mask"] = r.is_mask]
            /\ IF r.exc # "none"
               THEN Raise(c, r.exc) /\ UNCHANGED idx
               ELSE IF r.value
               THEN /\ pc' = [pc EXCEPT ![c] = "apply"]
                    /\ UNCHANGED <<idx, err, ret>>
               ELSE /\ idx' = [idx EXCEPT ![c] = idx[c] + 1]
                    /\ pc' = [pc EXCEPT ![c] = Pass2At(idx[c] + 1)]
                    /\ UNCHANGED <<err, ret>>
    /\ UNCHANGED <<fileExists, config, ruler, initError, meta, func_map,
                   ans, op>>
    /\ UNCHANGED simVars

\* Lines 231-248: the matched rule is applied; a mask stops the loop.
Pass2Apply(c) ==
    /\ pc[c] = "apply"
    /\ LET r == ApplyRule(ans[c], rules[idx[c]]) IN
       /\ ans' = [ans EXCEPT ![c] = r.ans]
       /\ IF r.stop
          THEN /\ pc' = [pc EXCEPT ![c] = "p2check"]
               /\ UNCHANGED idx
          ELSE /\ pc' = [pc EXCEPT ![c] = Pass2At(idx[c] + 1)]
               /\ idx' = [idx EXCEPT ![c] = idx[c] + 1]
    /\ UNCHANGED <<fileExists, config, ruler, initError, rules, meta,
                   func_map, ret, err, op>>
    /\ UNCHANGED simVars

\* Lines 254-256: the final asserts and the return.
MatchReturn(c) ==
    /\ pc[c] = "p2check"
    /\ IF AccountsAsserted(ans[c])
       THEN /\ pc' = [pc EXCEPT ![c] = "done"]
            /\ ret' = [ret EXCEPT ![c] = ans[c]]
            /\ UNCHANGED err
       ELSE Raise(c, "AssertionError")
    /\ UNCHANGED <<fileExists, config, ruler, initError, rules, meta,
                   func_map, ans, idx, op>>
    /\ UNCHANGED simVars

Next ==
    \/ Construct
    \/ \E c \in SeqCallers : GartherAccounts(c)
    \/ \E c \in SeqCallers, call \in Calls : MatchStart(c, call[1], call[2])
    \/ \E c \in SeqCallers : Pass1Step(c)
    \/ \E c \in SeqCallers : Pass1End(c)
    \/ \E c \in SeqCallers : Pass2Match(c)
    \/ \E c \in SeqCallers : Pass2Apply(c)
    \/ \E c \in SeqCallers : MatchReturn(c)

Spec == Init /\ [][Next]_vars

(***************************************************************************)
(* Vocabulary of the properties                                            *)
(***************************************************************************)
Accounts == {RULE_MINUS_ACCOUNT, RULE_PLUS_ACCOUNT}

\* Both defaults are present in the document and non-empty.
GoodDefaults ==
    /\ _DEFAULT_MINUS \in DOMAIN config
    /\ _DEFAULT_PLUS \in DOMAIN config
    /\ Truthy(config[_DEFAULT_MINUS])
    /\ Truthy(config[_DEFAULT_PLUS])

\* Caller c's match call has returned a result.
Returned(c) == pc[c] = "done" /\ op[c] = "match"

\* Caller c's match call is between its initialisation and its return.
Scanning(c) ==
    op[c] = "match" /\ pc[c] \in {"pass1", "p1check", "pass2", "apply", "p2check"}

\* The rule is a method rule whose txn_method is the record's resolved value.
MethodMatches(rule, m, fm) ==
    /\ is_txn_method(rule)
    /\ KeyTruthy(fm.map[RULE_TXN_METHOD])
    /\ HasKey(m, fm.map[RULE_TXN_METHOD])
    /\ rule[RULE_TXN_METHOD] = Lookup(m, fm.map[RULE_TXN_METHOD])

\* The rule is a general rule whose predicate holds of the record.
GeneralMatches(rule, m, fm) ==
    /\ ~ is_txn_method(rule)
    /\ _match(rule, m, fm).exc = "none"
    /\ _match(rule, m, fm).value

\* The largest index of a set of indices, 0 for the empty set.
LastIdx(S) == IF S = {} THEN 0 ELSE CHOOSE i \in S : \A j \in S : j <= i

\* The indices below k of the general rules that match caller c's record.
MatchedBefore(c, k) ==
    {j \in 1..(k - 1) : GeneralMatches(rules[j], meta[c], func_map[c])}

\* The indices of the method rules that match caller c's record.
MethodMatched(c) ==
    {j \in 1..Len(rules) : MethodMatches(rules[j], meta[c], func_map[c])}

\* Last-match-wins over the method rules, the default if none matches.
Pass1Expected(c) ==
    IF MethodMatched(c) = {} THEN config[_DEFAULT_MINUS]
    ELSE rules[LastIdx(MethodMatched(c))][RULE_MINUS_ACCOUNT]

\* Last-match-wins for account field f over the general rules below k that
\* match and give a non-empty f; otherwise the value base.
AccountExpected(c, k, f, base) ==
    LET S == {j \in MatchedBefore(c, k) : Truthy(rules[j][f])}
    IN  IF S = {} THEN base ELSE rules[LastIdx(S)][f]

\* The result accumulated from the rules below k, none of which masks.
Accumulated(c, k) ==
    [a \in FieldSet \cup {"is_mask"} |->
        IF a = RULE_MINUS_ACCOUNT
        THEN AccountExpected(c, k, a, Pass1Expected(c))
        ELSE IF a = RULE_PLUS_ACCOUNT
        THEN AccountExpected(c, k, a, config[_DEFAULT_PLUS])
        ELSE IF MatchedBefore(c, k) = {} THEN None
        ELSE rules[LastIdx(MatchedBefore(c, k))][a]]

\* General rule j was applied to caller c's returned result: it matches and
\* the scan was not stopped by a mask at or before it.
Applied(c, j) ==
    /\ GeneralMatches(rules[j], meta[c], func_map[c])
    /\ Truthy(ret[c]["is_mask"]) => j < idx[c]

(***************************************************************************)
(* C1: match never raises: a rule field (or, in the first loop, txn_method)*)
(* that resolves to a key the record lacks counts as not matching, and     *)
(* match still returns a result.  Stated for engines with good defaults.   *)
(* The code indexes the record with the resolved key, so this is violated. *)
(***************************************************************************)
C1_MatchNeverRaises ==
    \A c \in Callers : (op[c] = "match" /\ GoodDefaults) => pc[c] # "raised"

(***************************************************************************)
(* C2: with non-empty defaults, method_account and target_account of the   *)
(* working result are non-empty at every step of the scan, and so are      *)
(* those of the returned result.                                           *)
(***************************************************************************)
C2_AccountsNeverEmpty ==
    \A c \in Callers :
        /\ Scanning(c) =>
              /\ Truthy(ans[c][RULE_MINUS_ACCOUNT])
              /\ Truthy(ans[c][RULE_PLUS_ACCOUNT])
        /\ Returned(c) =>
              /\ Truthy(ret[c][RULE_MINUS_ACCOUNT])
              /\ Truthy(ret[c][RULE_PLUS_ACCOUNT])

\* A call returned after applying a general rule that gives no target account.
C2_Witness ==
    /\ Returned("c1")
    /\ \E j \in 1..Len(rules) :
          /\ Applied("c1", j)
          /\ ~ Truthy(rules[j][RULE_PLUS_ACCOUNT])
          /\ ~ Truthy(rules[j][RULE_MINUS_ACCOUNT])

(***************************************************************************)
(* C3: the scan ends before the end of the list exactly when a matched     *)
(* general rule has a true mask state; the result then has is_mask true    *)
(* and otherwise is what the rules before the mask rule accumulated:       *)
(* neither the mask rule's own accounts and fields nor any later rule show *)
(* in it.                                                                  *)
(***************************************************************************)
C3_MaskStops ==
    \A c \in Callers :
        /\ (op[c] = "match" /\ pc[c] \in {"p2check", "done"}) =>
              (Truthy(ans[c]["is_mask"]) <=> idx[c] <= Len(rules))
        /\ (Returned(c) /\ Truthy(ret[c]["is_mask"])) =>
              /\ GeneralMatches(rules[idx[c]], meta[c], func_map[c])
              /\ Truthy(rules[idx[c]]["is_mask"])
              /\ ret[c] = [Accumulated(c, idx[c]) EXCEPT !["is_mask"] = Bool(TRUE)]

\* A mask rule with accounts of its own stopped the scan, and a later rule
\* that matches the record and has a target account was left out.
C3_Witness ==
    /\ Returned("c1")
    /\ Truthy(ret["c1"]["is_mask"])
    /\ Truthy(rules[idx["c1"]][RULE_PLUS_ACCOUNT])
    /\ rules[idx["c1"]][RULE_PLUS_ACCOUNT] # ret["c1"][RULE_PLUS_ACCOUNT]
    /\ \E j \in (idx["c1"] + 1)..Len(rules) :
          /\ GeneralMatches(rules[j], meta["c1"], func_map["c1"])
          /\ Truthy(rules[j][RULE_PLUS_ACCOUNT])
          /\ rules[j][RULE_PLUS_ACCOUNT] # ret["c1"][RULE_PLUS_ACCOUNT]

(***************************************************************************)
(* C4: the returned target_account is that of the last applied general     *)
(* rule that gives one: of two applied rules that both set it the later    *)
(* wins, and a rule that does not match changes nothing.                   *)
(***************************************************************************)
C4_LastMatchWins ==
    \A c \in Callers : Returned(c) =>
        \A j \in 1..Len(rules) :
            ( /\ Applied(c, j)
              /\ Truthy(rules[j][RULE_PLUS_ACCOUNT])
              /\ \A k \in (j + 1)..Len(rules) :
                    ~ (Applied(c, k) /\ Truthy(rules[k][RULE_PLUS_ACCOUNT])) )
            => ret[c][RULE_PLUS_ACCOUNT] = rules[j][RULE_PLUS_ACCOUNT]

\* Two applied rules with different target accounts; the later one's is
\* returned.
C4_Witness ==
    /\ Returned("c1")
    /\ \E i, j \in 1..Len(rules) :
          /\ i < j
          /\ Applied("c1", i) /\ Applied("c1", j)
          /\ Truthy(rules[i][RULE_PLUS_ACCOUNT])
          /\ Truthy(rules[j][RULE_PLUS_ACCOUNT])
          /\ rules[i][RULE_PLUS_ACCOUNT] # rules[j][RULE_PLUS_ACCOUNT]
          /\ ret["c1"][RULE_PLUS_ACCOUNT] = rules[j][RULE_PLUS_ACCOUNT]

\* No method rule and no general rule matches caller c's record.
NoRuleMatches(c) ==
    \A j \in 1..Len(rules) :
        /\ ~ MethodMatches(rules[j], meta[c], func_map[c])
        /\ ~ GeneralMatches(rules[j], meta[c], func_map[c])

EntryEmpty(entry) ==
    \A k \in FieldSet \ Accounts : k \notin DOMAIN entry \/ IsNone(entry[k])

C8_MethodPass ==
    \A c \in Callers :
        /\ (op[c] = "match" /\ pc[c] = "p1check") =>
              ans[c] = [RuleMeta EXCEPT ![RULE_MINUS_ACCOUNT] = Pass1Expected(c),
                                        ![RULE_PLUS_ACCOUNT] = config[_DEFAULT_PLUS]]
        /\ pc[c] = "apply" => ~ is_txn_method(rules[idx[c]])

\* The first loop ended with two matching method rules that give different
\* accounts.
C8_Witness ==
    /\ op["c1"] = "match"
    /\ pc["c1"] = "p1check"
    /\ \E i, j \in MethodMatched("c1") :
          /\ i < j
          /\ rules[i][RULE_MINUS_ACCOUNT] # rules[j][RULE_MINUS_ACCOUNT]

\* The list garther_accounts returned is strictly ascending and holds the
\* two defaults and the non-empty accounts of the rules, nothing else.
C10_Returned ==
    \A c \in Callers : (op[c] = "garther_accounts" /\ pc[c] = "done") =>
        /\ \A i \in 1..(Len(ret[c]) - 1) : StrLess(ret[c][i][2], ret[c][i + 1][2])
        /\ {ret[c][i] : i \in 1..Len(ret[c])} =
              {config[_DEFAULT_MINUS], config[_DEFAULT_PLUS]}
              \cup {a \in {rules[j][f] : j \in 1..Len(rules), f \in Accounts} :
                       Truthy(a)}

\* A step in which garther_accounts returns leaves the engine as it was.
C10_EngineUntouched ==
    (\E c \in Callers : op'[c] = "garther_accounts" /\ ret'[c] # ret[c])
        => UNCHANGED <<rules, config, ruler>>

(***************************************************************************)
(* C10: garther_accounts returns a strictly ascending list (sorted, no     *)
(* duplicate) whose elements are exactly the two defaults and the          *)
(* non-empty method_account and target_account of every rule, and the call *)
(* leaves the engine as it was.                                            *)
(***************************************************************************)
C10_GartherAccounts == [] C10_Returned /\ [][C10_EngineUntouched]_vars

\* A returned list of three accounts from an engine in which the same
\* account appears in two rules.
C10_Witness ==
    /\ op["c1"] = "garther_accounts"
    /\ pc["c1"] = "done"
    /\ Len(ret["c1"]) = 3
    /\ \E i, j \in 1..Len(rules) : \E f, g \in Accounts :
          /\ i < j
          /\ Truthy(rules[i][f])
          /\ rules[i][f] = rules[j][g]

(***************************************************************************)
(* RuleMeta.check and RuleMeta.is_txn_method over a wide range of rules    *)
(***************************************************************************)
\* Most fields a probed rule entry gives a value to.
MaxSet == 3

\* The values of a probed entry: the empty string and a non-empty one.
ProbeValues == {s_empty, s_wechat}

\* Every entry that gives a value to at most MaxSet of the sixteen fields,
\* with an entry of unrecognised keys and one with a null payee.
ProbeEntries ==
    UNION {[T -> ProbeValues] :
              T \in {U \in SUBSET FieldSet : Cardinality(U) <= MaxSet}}
    \cup {rule_unknown_keys, rule_null_payee}

\* Documents with good defaults whose rules list is one probed entry, or an
\* entry of RuleEntries beside a valid or an invalid one.
ProbeDocuments ==
    {YamlDoc(Assets_FIXME, Expenses_FIXME, <<e>>) : e \in ProbeEntries}
    \cup {YamlDoc(Assets_FIXME, Expenses_FIXME, rs) :
             rs \in UNION { {<<rule_mike, e>>, <<e, rule_accounts_only>>} :
                               e \in RuleEntries }}

InitRule ==
    /\ fileExists = TRUE
    /\ config \in ProbeDocuments
    /\ ruler = "none"
    /\ initError = "none"
    /\ rules = << >>
    /\ pc = [c \in Callers |-> "idle"]
    /\ meta = [c \in Callers |-> m_empty]
    /\ func_map = [c \in Callers |-> NoFuncMap]
    /\ ans = [c \in Callers |-> RuleMeta]
    /\ idx = [c \in Callers |-> 0]
    /\ ret = [c \in Callers |-> NoResult]
    /\ err = [c \in Callers |-> "none"]
    /\ op = [c \in Callers |-> "none"]
    /\ SimIdle

\* The RuleMeta that _convert_to_rules builds from entry n of the document.
Probe(n) == ConvertRule(config["rules"][n])

\* rule.check() on the rule built from entry n.
CallCheck(c, n) ==
    /\ Free(c)
    /\ op' = [op EXCEPT ![c] = "check"]
    /\ idx' = [idx EXCEPT ![c] = n]
    /\ ret' = [ret EXCEPT ![c] = Bool(check(Probe(n)))]
    /\ pc' = [pc EXCEPT ![c] = "done"]
    /\ UNCHANGED <<fileExists, config, ruler, initError, rules, meta,
                   func_map, ans, err>>
    /\ UNCHANGED simVars

\* rule.is_txn_method() on the rule built from entry n.
CallIsTxnMethod(c, n) ==
    /\ Free(c)
    /\ op' = [op EXCEPT ![c] = "is_txn_method"]
    /\ idx' = [idx EXCEPT ![c] = n]
    /\ ret' = [ret EXCEPT ![c] = Bool(is_txn_method(Probe(n)))]
    /\ pc' = [pc EXCEPT ![c] = "done"]
    /\ UNCHANGED <<fileExists, config, ruler, initError, rules, meta,
                   func_map, ans, err>>
    /\ UNCHANGED simVars

NextRule ==
    \/ Construct
    \/ \E c \in SeqCallers, n \in 1..Len(config["rules"]) : CallCheck(c, n)
    \/ \E c \in SeqCallers, n \in 1..Len(config["rules"]) : CallIsTxnMethod(c, n)

SpecRule == InitRule /\ [][NextRule]_vars

(***************************************************************************)
(* C7: check returns False iff every field other than method_account and   *)
(* target_account is unset (None), and constructing a Ruler fails, with no *)
(* engine, iff at least one configured rule fails check: a rule made only  *)
(* of accounts and unrecognised keys fails, a rule with a recognised       *)
(* non-account field that is not null passes.                              *)
(***************************************************************************)
C7_CheckAndConstruction ==
    /\ \A c \in Callers : op[c] = "check" =>
          ret[c] = Bool(\E k \in FieldSet \ Accounts : ~ IsNone(Probe(idx[c])[k]))
    /\ ruler # "none" =>
          /\ ruler = "failed" <=>
                \E n \in 1..Len(config["rules"]) : EntryEmpty(config["rules"][n])
          /\ ruler = "failed" => (initError = "AssertionError" /\ rules = << >>)
          /\ ruler = "constructed" => Len(rules) = Len(config["rules"])

\* Construction failed on a list whose first entry names only accounts, and
\* check returned False for that entry.
C7_Witness ==
    /\ ruler = "failed"
    /\ op["c1"] = "check"
    /\ idx["c1"] = 1
    /\ ret["c1"] = Bool(FALSE)
    /\ DOMAIN config["rules"][1] = Accounts
    /\ Len(config["rules"]) = 1

(***************************************************************************)
(* C9 as claimed: is_txn_method is true iff txn_method and method_account  *)
(* are the only set fields, "set" meaning what it means to check: not None.*)
(***************************************************************************)
C9_SetAsInCheck ==
    \A c \in Callers : op[c] = "is_txn_method" =>
        ret[c] = Bool({k \in FieldSet : ~ IsNone(Probe(idx[c])[k])}
                          = {RULE_TXN_METHOD, RULE_MINUS_ACCOUNT})

(***************************************************************************)
(* C9 amended: is_txn_method is true iff txn_method and method_account are *)
(* the only fields with a truthy value: a field that is None or empty      *)
(* counts as unset here, while check counts an empty value as set.         *)
(***************************************************************************)
C9_SetMeansTruthy ==
    \A c \in Callers : op[c] = "is_txn_method" =>
        ret[c] = Bool({k \in FieldSet : Truthy(Probe(idx[c])[k])}
                          = {RULE_TXN_METHOD, RULE_MINUS_ACCOUNT})

\* is_txn_method returned True for a rule with a third field that is not
\* None.
C9_Witness ==
    /\ op["c1"] = "is_txn_method"
    /\ ret["c1"] = Bool(TRUE)
    /\ \E k \in FieldSet \ {RULE_TXN_METHOD, RULE_MINUS_ACCOUNT} :
          ~ IsNone(Probe(idx["c1"])[k])

(***************************************************************************)
(* Two callers on one Ruler                                                *)
(***************************************************************************)
\* Engines with good defaults and a mask rule beside a general rule or a
\* method rule, in both list orders.
ConcRuleLists ==
    { <<rule_mask, rule_jim>>, <<rule_jim, rule_mask>>,
      <<rule_wechat, rule_mask>> }

ConcDocuments ==
    {YamlDoc(Assets_FIXME, Expenses_FIXME, rs) : rs \in ConcRuleLists}

\* The records of the two callers: one the exclusion cancels the mask for,
\* one it masks, one the mask rule does not match.
ConcCalls == {<<m, NoFuncMap>> : m \in {m_foobar, m_foobaz, m_jim}}

InitConc ==
    /\ fileExists = TRUE
    /\ config \in ConcDocuments
    /\ ruler = "none"
    /\ initError = "none"
    /\ rules = << >>
    /\ pc = [c \in Callers |-> "idle"]
    /\ meta = [c \in Callers |-> m_empty]
    /\ func_map = [c \in Callers |-> NoFuncMap]
    /\ ans = [c \in Callers |-> RuleMeta]
    /\ idx = [c \in Callers |-> 0]
    /\ ret = [c \in Callers |-> NoResult]
    /\ err = [c \in Callers |-> "none"]
    /\ op = [c \in Callers |-> "none"]
    /\ SimIdle

\* Both callers run match on the one engine; their steps interleave freely.
\* The write of is_mask in _match and its read in match are separate steps.
NextConc ==
    \/ Construct
    \/ \E c \in Callers, call \in ConcCalls : MatchStart(c, call[1], call[2])
    \/ \E c \in Callers : Pass1Step(c)
    \/ \E c \in Callers : Pass1End(c)
    \/ \E c \in Callers : Pass2Match(c)
    \/ \E c \in Callers : Pass2Apply(c)
    \/ \E c \in Callers : MatchReturn(c)

SpecConc == InitConc /\ [][NextConc]_vars

\* The mask state _match leaves on rule j for caller c's record when nothing
\* was written on the rule before.
MaskState(c, j) ==
    _match([rules[j] EXCEPT !["is_mask"] = None], meta[c], func_map[c]).is_mask

\* The general rules that match caller c's record with a true mask state.
MaskRules(c) ==
    {j \in 1..Len(rules) :
        /\ GeneralMatches(rules[j], meta[c], func_map[c])
        /\ Truthy(MaskState(c, j))}

\* The smallest index of a non-empty set of indices.
FirstIdx(S) == CHOOSE i \in S : \A j \in S : i <= j

\* What match returns for caller c's record on an engine nobody else uses:
\* the scan stops at the first mask rule, and the rules before it accumulate.
AloneResult(c) ==
    LET k == IF MaskRules(c) = {} THEN Len(rules) + 1
             ELSE FirstIdx(MaskRules(c))
        last == LastIdx(MatchedBefore(c, k))
    IN  [Accumulated(c, k) EXCEPT !["is_mask"] =
            IF k <= Len(rules) THEN Bool(TRUE)
            ELSE IF last = 0 THEN None
            ELSE MaskState(c, last)]

(***************************************************************************)
(* C11: two match calls interleaved on one Ruler race on rule.is_mask: a   *)
(* call can return a result that differs from the one it returns alone on  *)
(* the same record (the witness).  Such a difference needs a second caller *)
(* that ran match on the same engine and a rule with txn_mask that matches *)
(* the record; a caller whose engine nobody else uses never sees one.      *)
(***************************************************************************)
C11_RaceNeedsSharedEngine ==
    \A c \in Callers : (Returned(c) /\ ret[c] # AloneResult(c)) =>
        /\ \E d \in Callers \ {c} : op[d] = "match"
        /\ \E j \in 1..Len(rules) :
              /\ ~ IsNone(rules[j][RULE_TXN_MASK])
              /\ GeneralMatches(rules[j], meta[c], func_map[c])

\* A call returned with a mask flag and a target account that are not those
\* of the call run alone: the other caller overwrote is_mask between this
\* call's _match and its read.
C11_Witness ==
    /\ Returned("c1")
    /\ ret["c1"]["is_mask"] # AloneResult("c1")["is_mask"]
    /\ ret["c1"][RULE_PLUS_ACCOUNT] # AloneResult("c1")[RULE_PLUS_ACCOUNT]
    /\ op["c2"] = "match"

\* The general rules on which _match raises for caller c's record.
RaisingRules(c) ==
    {j \in 1..Len(rules) :
        /\ ~ is_txn_method(rules[j])
        /\ _match(rules[j], meta[c], func_map[c]).exc # "none"}

\* match raises for caller c's record on an engine nobody else uses: a
\* default is missing or empty, a method rule indexes the record with a key
\* it lacks, or _match raises on a rule the scan reaches.
AloneRaises(c) ==
    \/ ~ GoodDefaults
    \/ \E j \in 1..Len(rules) :
          MethodStep(RuleMeta, rules[j], meta[c], func_map[c]).exc # "none"
    \/ /\ RaisingRules(c) # {}
       /\ \A k \in MaskRules(c) : FirstIdx(RaisingRules(c)) < k

\* A finished match call has the outcome of the same call on a fresh engine,
\* and the rules are those built from the document, is_mask apart.
C12_Outcome ==
    /\ \A c \in Callers : (op[c] = "match" /\ pc[c] \in {"done", "raised"}) =>
          /\ pc[c] = "raised" <=> AloneRaises(c)
          /\ pc[c] = "done" => ret[c] = AloneResult(c)
    /\ ruler = "constructed" =>
          /\ Len(rules) = Len(_convert_to_rules(config))
          /\ \A j \in 1..Len(rules) : \A k \in FieldSet :
                rules[j][k] = _convert_to_rules(config)[j][k]

\* While a match call runs, its record and resolver stay as they were passed.
C12_RecordUntouched ==
    \A c \in Callers : Scanning(c) =>
        (meta'[c] = meta[c] /\ func_map'[c] = func_map[c])

(***************************************************************************)
(* C12: in any sequence of match calls on one Ruler that do not overlap,   *)
(* the outcome of each call is a function of the configuration and of that *)
(* call's record: it is the same whatever was matched before, although     *)
(* earlier calls leave is_mask values on the rules.  match changes no rule *)
(* field other than is_mask and does not change the record.                *)
(***************************************************************************)
C12_ResultIndependentOfHistory ==
    [] C12_Outcome /\ [][C12_RecordUntouched]_vars

\* A call returned after applying a rule while another rule, which does not
\* match this record, still carries the True mask state an earlier call left.
C12_Witness ==
    /\ Returned("c1")
    /\ \E i, j \in 1..Len(rules) :
          /\ Truthy(rules[j]["is_mask"])
          /\ ~ GeneralMatches(rules[j], meta["c1"], func_map["c1"])
          /\ j < i
          /\ Applied("c1", i)

(***************************************************************************)
(* Separator rules                                                         *)
(***************************************************************************)
\* The fields _match tests: those that are not None, the two accounts, the
\* separator and the exclusion apart.
Modifiers ==
    {RULE_MINUS_ACCOUNT, RULE_PLUS_ACCOUNT, RULE_SEPERATOR, RULE_TXN_EXCLUDE}

PredFields(rule) == {k \in FieldSet \ Modifiers : ~ IsNone(rule[k])}

SubstringFields == {RULE_TXN_META, RULE_TXN_MASK}

\* v is raw without the whitespace at its two ends.
IsTrimOf(v, raw) ==
    \E x \in 0..Len(raw) : \E y \in x..Len(raw) :
        /\ SubSeq(raw, x + 1, y) = v
        /\ \A i \in 1..x : raw[i] \in Whitespace
        /\ \A i \in (y + 1)..Len(raw) : raw[i] \in Whitespace
        /\ v # <<>> => (v[1] \notin Whitespace /\ v[Len(v)] \notin Whitespace)

\* v is one of the trimmed pieces of s: a stretch of s between two
\* neighbouring separators (or an end of s), without its outer whitespace.
IsPiece(v, s, sep) ==
    \E a \in 0..Len(s) : \E b \in a..Len(s) :
        /\ a = 0 \/ (a >= Len(sep) /\ SubSeq(s, a - Len(sep) + 1, a) = sep)
        /\ b = Len(s)
           \/ (b + Len(sep) <= Len(s) /\ SubSeq(s, b + 1, b + Len(sep)) = sep)
        /\ ~ Contains(SubSeq(s, a + 1, b), sep)
        /\ IsTrimOf(v, SubSeq(s, a + 1, b))

\* A general rule with a separator whose tested fields are all of the
\* equality type and hold strings.
SepEqRule(rule) ==
    /\ ~ is_txn_method(rule)
    /\ Truthy(rule[RULE_SEPERATOR])
    /\ IsStr(rule[RULE_SEPERATOR])
    /\ PredFields(rule) # {}
    /\ PredFields(rule) \cap SubstringFields = {}
    /\ \A k \in PredFields(rule) : IsStr(rule[k])

\* The resolver names a key of caller c's record for every tested field.
Resolvable(c, rule) ==
    \A k \in PredFields(rule) :
        /\ KeyTruthy(func_map[c].map[k])
        /\ HasKey(meta[c], func_map[c].map[k])

\* The value of caller c's record under the key resolved for field k.
Resolved(c, k) == Lookup(meta[c], func_map[c].map[k])

\* The step in which _match is called on a separator rule.
C13_Step ==
    \A c \in Callers :
        ( /\ pc[c] = "pass2"
          /\ <<pc'[c], idx'[c]>> # <<pc[c], idx[c]>>
          /\ SepEqRule(rules[idx[c]])
          /\ Resolvable(c, rules[idx[c]]) )
        => LET rule == rules[idx[c]]
               sep == rule[RULE_SEPERATOR][2]
           IN  /\ pc'[c] = "apply" <=>
                     \A k \in PredFields(rule) :
                         /\ IsStr(Resolved(c, k))
                         /\ IsPiece(Resolved(c, k)[2], rule[k][2], sep)
               /\ \A k \in PredFields(rule) :
                     (Contains(rule[k][2], sep) /\ Resolved(c, k) = rule[k])
                         => pc'[c] # "apply"

(***************************************************************************)
(* C13: a rule whose seperator is set matches an equality-type field when  *)
(* the record's value equals one of the whitespace-trimmed pieces obtained *)
(* by splitting the rule value on the separator, and only then; a record   *)
(* holding the unsplit rule value does not match.  So {payee: "mike, jim", *)
(* seperator: ","} matches payee "mike" and payee "jim", not "mike, jim".  *)
(***************************************************************************)
C13_SeparatorPieces == [][C13_Step]_vars

\* _match returned True for a separator rule on a record whose payee is the
\* second piece of the rule's value, which stands after a blank there.
C13_Witness ==
    /\ op["c1"] = "match"
    /\ pc["c1"] = "apply"
    /\ SepEqRule(rules[idx["c1"]])
    /\ Resolvable("c1", rules[idx["c1"]])
    /\ Resolved("c1", RULE_PAYEE) # rules[idx["c1"]][RULE_PAYEE]
    /\ Contains(rules[idx["c1"]][RULE_PAYEE][2],
                rules[idx["c1"]][RULE_SEPERATOR][2] \o <<32>>
                    \o Resolved("c1", RULE_PAYEE)[2])

(***************************************************************************)
(* beancount/ingest/similar.py: directives                                 *)
(***************************************************************************)
\* The currencies, accounts and file names of the entries, as code points.
s_USD == Str(<<85,83,68>>)
s_CNY == Str(<<67,78,89>>)
Assets_Other == Str(<<65,115,115,101,116,115,58,79,116,104,101,114>>)
Expenses_Tips == Str(<<69,120,112,101,110,115,101,115,58,84,105,112,115>>)
Expenses_Coffee ==
    Str(<<69,120,112,101,110,115,101,115,58,67,111,102,102,101,101>>)
Expenses_Restaurant ==
    Str(<<69,120,112,101,110,115,101,115,58,82,101,115,116,97,117,114,97,110,
          116>>)
Expenses_Groceries ==
    Str(<<69,120,112,101,110,115,101,115,58,71,114,111,99,101,114,105,101,
          115>>)
Expenses_Alcohol ==
    Str(<<69,120,112,101,110,115,101,115,58,65,108,99,111,104,111,108>>)
Expenses_Smoking ==
    Str(<<69,120,112,101,110,115,101,115,58,83,109,111,107,105,110,103>>)
Expenses_Taxi == Str(<<69,120,112,101,110,115,101,115,58,84,97,120,105>>)
Assets_Account1 ==
    Str(<<65,115,115,101,116,115,58,65,99,99,111,117,110,116,49>>)
Assets_Account2 ==
    Str(<<65,115,115,101,116,115,58,65,99,99,111,117,110,116,50>>)
Assets_CCB_4492 ==
    Str(<<65,115,115,101,116,115,58,66,97,110,107,58,67,78,58,67,67,66,45,52,
          52,57,50>>)
Assets_YuEBao ==
    Str(<<65,115,115,101,116,115,58,65,108,105,112,97,121,58,89,117,69,66,97,
          111>>)
f_string == Str(<<60,115,116,114,105,110,103,62>>)
f_alipay == Str(<<97,108,105,112,97,121,46,99,115,118>>)
f_ccb == Str(<<99,99,98,46,99,115,118>>)

\* An Amount(number, currency); the number is kept in hundredths, so that
\* equality is the numeric equality of Decimal.
Amount(number, currency) ==
    [isAmount |-> TRUE, number |-> number, currency |-> currency]

\* The units of a posting that gives no amount.
MISSING == [isAmount |-> FALSE, number |-> 0, currency |-> None]

\* A Posting: automatic says that its meta marks it as interpolated.
Posting(account, units) ==
    [account |-> account, units |-> units, automatic |-> FALSE]

\* A Transaction directive.  date is a day number (a timedelta of n days is
\* n), meta the dict of the entry in insertion order.
Transaction(date, flag, m, postings) ==
    [type |-> "Transaction", date |-> date, flag |-> flag, meta |-> m,
     postings |-> postings]

\* A directive that is not a Transaction.
Open(date, m) ==
    [type |-> "Open", date |-> date, flag |-> "", meta |-> m,
     postings |-> << >>]

\* The meta the parser gives every entry.
new_metadata(filename, lineno) ==
    << <<"filename", filename>>, <<"lineno", Num(lineno)>> >>

\* isinstance(entry, Transaction), the test of data.filter_txns.
is_txn(entry) == entry.type = "Transaction"

(***************************************************************************)
(* amounts_map and SimilarityComparator                                    *)
(***************************************************************************)
\* Lines 149-152: the postings amounts_map adds up.
Counted(posting) ==
    /\ ~ posting.automatic
    /\ posting.units.isAmount
    /\ IsStr(posting.units.currency)

\* Line 153: the key of a posting.
AmountKey(posting) == <<posting.account, posting.units.currency>>

\* Line 154: the sum of the counted postings with the given key.
RECURSIVE SumPostings(_, _, _)
SumPostings(postings, key, i) ==
    IF i > Len(postings) THEN 0
    ELSE (IF Counted(postings[i]) /\ AmountKey(postings[i]) = key
          THEN postings[i].units.number ELSE 0)
         + SumPostings(postings, key, i + 1)

\* Lines 138-155: (account, currency) -> balance.
amounts_map(entry) ==
    [key \in {AmountKey(entry.postings[i]) :
                 i \in {n \in 1..Len(entry.postings) :
                           Counted(entry.postings[n])}}
        |-> SumPostings(entry.postings, key, 1)]

\* The order of two (account, currency) tuples.
KeyLess(k1, k2) ==
    \/ StrLess(k1[1][2], k2[1][2])
    \/ k1[1] = k2[1] /\ StrLess(k1[2][2], k2[2][2])

\* sorted(common_keys)
RECURSIVE SortedKeys(_)
SortedKeys(S) ==
    IF S = {} THEN << >>
    ELSE LET first == CHOOSE k \in S : \A o \in S \ {k} : KeyLess(k, o)
         IN  <<first>> \o SortedKeys(S \ {first})

Abs(n) == IF n < 0 THEN 0 - n ELSE n

\* EPSILON = D('0.05'), in hundredths.
EPSILON == 5

\* Lines 112-128: the loop over the common keys; TRUE when it is left by a
\* break, FALSE when the comparator returns False from it.  With hi and lo
\* the larger and the smaller of the two absolute amounts, diff - ONE is
\* (hi - lo) / lo.  The quotient of two amounts whose ratio is not exactly
\* ONE + EPSILON is far enough from it for Decimal's rounding not to matter.
RECURSIVE amounts_loop(_, _, _, _)
amounts_loop(keys, amounts1, amounts2, n) ==
    IF n > Len(keys) THEN FALSE
    ELSE LET number1 == amounts1[keys[n]]
             number2 == amounts2[keys[n]]
             hi == IF Abs(number1) > Abs(number2)
                   THEN Abs(number1) ELSE Abs(number2)
             lo == IF Abs(number1) > Abs(number2)
                   THEN Abs(number2) ELSE Abs(number1)
         IN  IF number1 = 0 /\ number2 = 0 THEN TRUE
             ELSE IF number1 = 0 \/ number2 = 0 THEN FALSE
             ELSE IF 100 * (hi - lo) < EPSILON * lo THEN TRUE
             ELSE amounts_loop(keys, amounts1, amounts2, n + 1)

\* Lines 84-135, for the comparator find_similar_entries builds: its
\* max_date_delta is None, and its cache only saves calls of amounts_map.
SimilarityComparator(e1, e2) ==
    LET amounts1 == amounts_map(e1)
        amounts2 == amounts_map(e2)
        common_keys == DOMAIN amounts1 \cap DOMAIN amounts2
        accounts1 == {e1.postings[i].account : i \in 1..Len(e1.postings)}
        accounts2 == {e2.postings[i].account : i \in 1..Len(e2.postings)}
    IN  IF ~ amounts_loop(SortedKeys(common_keys), amounts1, amounts2, 1)
        THEN FALSE
        ELSE accounts1 \subseteq accounts2 \/ accounts2 \subseteq accounts1

(***************************************************************************)
(* find_similar_entries                                                    *)
(***************************************************************************)
\* bisect_left_with_key(sequence, value, key=entry.date): the number of
\* entries before the first one dated value or later, by binary search.
RECURSIVE bisect_left_with_key(_, _, _, _)
bisect_left_with_key(sequence, value, lo, hi) ==
    IF lo >= hi THEN lo
    ELSE LET mid == (lo + hi) \div 2 IN
         IF sequence[mid + 1].date < value
         THEN bisect_left_with_key(sequence, value, mid + 1, hi)
         ELSE bisect_left_with_key(sequence, value, lo, mid)

\* data.iter_entry_dates(entries, date_begin, date_end): the positions of the
\* entries with date_begin <= date < date_end in a list sorted by date.
iter_entry_dates(es, date_begin, date_end) ==
    [first |-> bisect_left_with_key(es, date_begin, 0, Len(es)) + 1,
     last |-> bisect_left_with_key(es, date_end, 0, Len(es))]

\* Mutant of window_tail: the window ends on the last day, not after it.
window_tail_same(days) == days

\* Lines 44-45.
window_head(days) == days
window_tail(days) == days + 1

\* Lines 55-57: the stretch of source_entries the inner loop goes through.
SourceWindow(entry) ==
    iter_entry_dates(source_entries.list,
                     entry.date - window_head(window_days),
                     entry.date + window_tail(window_days))

\* comparator(entry, source_entry) for the comparators passed in the tests
\* and the default one.
CallComparator(cmp, e1, e2) ==
    CASE cmp = "SimilarityComparator" -> SimilarityComparator(e1, e2)
      [] cmp = "lambda: True" -> TRUE
      [] cmp = "lambda: False" -> FALSE

\* No call of similar.py was made yet.  Neither function keeps anything
\* from one call to the next (find_similar_entries builds its comparator
\* itself, NaiveComparator has no field), so a run makes one call.
SimFree == simpc = "idle"

\* find_similar_entries(es, src, cmp, days), lines 44-52.
FindSimilarEntries(es, src, cmp, days) ==
    /\ SimFree
    /\ entries' = es
    /\ source_entries' = src
    /\ comparator' = IF cmp = "None" THEN "SimilarityComparator" ELSE cmp
    /\ window_days' = days
    /\ duplicates' = << >>
    /\ entry_i' = 1
    /\ source_i' = 0
    /\ simpc' = IF src.isNone THEN "return" ELSE "entry"
    /\ UNCHANGED <<entry1, entry2, verdict>>
    /\ UNCHANGED ruleVars

\* Line 53: the outer loop moves to the next Transaction of entries.
NextEntry ==
    /\ simpc = "entry"
    /\ IF entry_i > Len(entries)
       THEN simpc' = "return" /\ UNCHANGED <<entry_i, source_i>>
       ELSE IF ~ is_txn(entries[entry_i])
       THEN entry_i' = entry_i + 1 /\ UNCHANGED <<simpc, source_i>>
       ELSE /\ simpc' = "source"
            /\ source_i' = SourceWindow(entries[entry_i]).first
            /\ UNCHANGED entry_i
    /\ UNCHANGED <<entries, source_entries, comparator, window_days,
                   duplicates, entry1, entry2, verdict>>
    /\ UNCHANGED ruleVars

\* Lines 54-60: the inner loop looks at the next source entry of the window.
NextSource ==
    /\ simpc = "source"
    /\ LET entry == entries[entry_i]
           source_entry == source_entries.list[source_i]
       IN  IF source_i > SourceWindow(entry).last
           THEN /\ entry_i' = entry_i + 1
                /\ simpc' = "entry"
                /\ UNCHANGED <<source_i, duplicates>>
           ELSE IF ~ is_txn(source_entry)
           THEN /\ source_i' = source_i + 1
                /\ UNCHANGED <<entry_i, simpc, duplicates>>
           ELSE IF CallComparator(comparator, entry, source_entry)
           THEN /\ duplicates' = Append(duplicates, <<entry, source_entry>>)
                /\ entry_i' = entry_i + 1
                /\ simpc' = "entry"
                /\ UNCHANGED source_i
           ELSE /\ source_i' = source_i + 1
                /\ UNCHANGED <<entry_i, simpc, duplicates>>
    /\ UNCHANGED <<entries, source_entries, comparator, window_days,
                   entry1, entry2, verdict>>
    /\ UNCHANGED ruleVars

\* Line 61: return duplicates.
FindReturn ==
    /\ simpc = "return"
    /\ simpc' = "done"
    /\ UNCHANGED <<entries, source_entries, comparator, window_days,
                   duplicates, entry_i, source_i, entry1, entry2, verdict>>
    /\ UNCHANGED ruleVars

(***************************************************************************)
(* The entries handed to find_similar_entries                              *)
(***************************************************************************)
\* A transaction of similar_test.py: one expense paid from Assets:Other.
\* Dates are days of January 2016.
Paid(date, account, number) ==
    Transaction(date, "*", new_metadata(f_string, date),
                << Posting(account, Amount(number, s_USD)),
                   Posting(Assets_Other, Amount(0 - number, s_USD)) >>)

\* A transaction of test_find_similar_entries__multiple_matches.
Moved(date) ==
    Transaction(date, "*", new_metadata(f_string, date),
                << Posting(Assets_Account1, Amount(1000, s_USD)),
                   Posting(Assets_Account2, Amount(0 - 1000, s_USD)) >>)

\* The seven existing entries of test_find_similar_entries.
src_week ==
    << Paid(3, Expenses_Tips, 103), Paid(4, Expenses_Coffee, 104),
       Paid(5, Expenses_Restaurant, 105), Paid(6, Expenses_Groceries, 106),
       Paid(7, Expenses_Alcohol, 107), Paid(8, Expenses_Smoking, 108),
       Paid(9, Expenses_Taxi, 109) >>

\* The five existing entries of test_find_similar_entries__multiple_matches.
src_moves == << Moved(1), Moved(2), Moved(3), Moved(4), Moved(5) >>

\* Existing entries with a directive that is not a transaction and with
\* several transactions close to one another in date and amount.
src_mixed ==
    << Paid(4, Expenses_Groceries, 150), Open(6, new_metadata(f_string, 1)),
       Paid(6, Expenses_Groceries, 110), Paid(6, Expenses_Groceries, 106),
       Paid(8, Expenses_Groceries, 106) >>

\* The source_entries arguments: lists sorted by date, as the loader returns
\* them, the empty list and None.
SourceLists ==
    { [isNone |-> TRUE, list |-> << >>] }
    \cup { [isNone |-> FALSE, list |-> l] :
              l \in {<< >>, src_week, src_moves, src_mixed} }

\* The candidates: the new entry of test_find_similar_entries, the one of
\* the other test, a transaction far from every existing one, and a
\* directive that is not a transaction.
NewEntries ==
    { Paid(6, Expenses_Groceries, 106), Moved(3),
      Paid(12, Expenses_Groceries, 106), Open(6, new_metadata(f_string, 2)) }

\* Longest entries list and widest window.
MaxEntries == 2
MaxWindow == 2

EntryLists == UNION {[1..n -> NewEntries] : n \in 0..MaxEntries}

Comparators == {"None", "lambda: True", "lambda: False"}

(***************************************************************************)
(* NaiveComparator                                                         *)
(***************************************************************************)
IsDigit(ch) == ch \in 48..57

\* The end of the longest run of digits of s that starts at i; i - 1 if s
\* has no digit there.
RECURSIVE DigitsEnd(_, _)
DigitsEnd(s, i) ==
    IF i <= Len(s) /\ IsDigit(s[i]) THEN DigitsEnd(s, i + 1) ELSE i - 1

\* (\d+:\d+:\d+) at position i of s: whether it matches, and the three runs.
ClockAt(s, i) ==
    LET hEnd == DigitsEnd(s, i)
        ok1 == hEnd >= i /\ hEnd + 1 <= Len(s) /\ s[hEnd + 1] = 58
        mEnd == DigitsEnd(s, hEnd + 2)
        ok2 == ok1 /\ mEnd >= hEnd + 2 /\ mEnd + 1 <= Len(s) /\ s[mEnd + 1] = 58
        sEnd == DigitsEnd(s, mEnd + 2)
        ok3 == ok2 /\ sEnd >= mEnd + 2
    IN  IF ok3
        THEN [ok |-> TRUE, H |-> SubSeq(s, i, hEnd),
              M |-> SubSeq(s, hEnd + 2, mEnd), S |-> SubSeq(s, mEnd + 2, sEnd)]
        ELSE [ok |-> FALSE, H |-> << >>, M |-> << >>, S |-> << >>]

\* re.match(r".+ (\d+:\d+:\d+).*", val): ".+" is greedy and stays on one
\* line, so the group starts after the last blank that three runs of digits
\* joined by colons follow.
pattern_match(val) ==
    LET P == {p \in 2..Len(val) :
                 /\ val[p] = 32
                 /\ \A q \in 1..(p - 1) : val[q] # 10
                 /\ ClockAt(val, p + 1).ok}
    IN  IF P = {} THEN ClockAt(<< >>, 1)
        ELSE ClockAt(val, (CHOOSE p \in P : \A q \in P : q <= p) + 1)

\* int() of a run of digits.
RECURSIVE DigitsValue(_)
DigitsValue(d) ==
    IF d = << >> THEN 0
    ELSE 10 * DigitsValue(SubSeq(d, 1, Len(d) - 1)) + (d[Len(d)] - 48)

\* A datetime: day 0 is 1900-01-01, the date strptime gives a time of day;
\* day 1 is the day datetime.now() is called on.
DateTime(day, second, microsecond) ==
    [day |-> day, second |-> second, microsecond |-> microsecond]

\* datetime.strptime(text, '%H:%M:%S'): one or two digits each, an hour up
\* to 23, minutes and seconds up to 59; anything else is a ValueError.
strptime(g) ==
    IF /\ Len(g.H) \in 1..2 /\ Len(g.M) \in 1..2 /\ Len(g.S) \in 1..2
       /\ DigitsValue(g.H) <= 23
       /\ DigitsValue(g.M) <= 59
       /\ DigitsValue(g.S) <= 59
    THEN [exc |-> "none",
          value |-> DateTime(0, 3600 * DigitsValue(g.H)
                                   + 60 * DigitsValue(g.M)
                                   + DigitsValue(g.S), 0)]
    ELSE [exc |-> "ValueError", value |-> DateTime(0, 0, 0)]

\* Lines 162-171: the time of the first string of the meta that holds one;
\* the current time if none does.
RECURSIVE get_txn_time_loop(_, _, _)
get_txn_time_loop(m, i, now) ==
    IF i > Len(m) THEN [exc |-> "none", value |-> now]
    ELSE IF IsStr(m[i][2]) /\ pattern_match(m[i][2][2]).ok
    THEN strptime(pattern_match(m[i][2][2]))
    ELSE get_txn_time_loop(m, i + 1, now)

get_txn_time(m, now) == get_txn_time_loop(m, 1, now)

\* (t1 - t2).seconds: a timedelta is normalised to days (of either sign),
\* seconds in 0..86399 and microseconds in 0..999999.
delta_seconds(t1, t2) ==
    ((t1.second - t2.second)
        - (IF t1.microsecond < t2.microsecond THEN 1 ELSE 0)) % 86400

\* Lines 173-174.
equal_post(post1, post2) ==
    post1.account = post2.account /\ post1.units = post2.units

DUPLICATE_META == "__duplicate__"

\* Line 201: the largest delta.seconds of a duplicate.
MaxDeltaSeconds == 120

\* Lines 179-208: NaiveComparator()(entry1, entry2), with the two readings
\* of the clock that get_txn_time takes for an entry without a time.
NaiveComparator(e1, e2, now1, now2) ==
    IF ~ is_txn(e1) \/ ~ is_txn(e2)
    THEN [exc |-> "AssertionError", value |-> FALSE]
    ELSE IF ~ HasKey(e1.meta, "filename") \/ ~ HasKey(e2.meta, "filename")
    THEN [exc |-> "KeyError", value |-> FALSE]
    ELSE IF Lookup(e1.meta, "filename") = Lookup(e2.meta, "filename")
    THEN [exc |-> "none", value |-> FALSE]
    ELSE IF /\ HasKey(e1.meta, DUPLICATE_META)
            /\ Truthy(Lookup(e1.meta, DUPLICATE_META))
    THEN [exc |-> "none", value |-> FALSE]
    ELSE IF e1.date # e2.date
    THEN [exc |-> "none", value |-> FALSE]
    ELSE IF e1.flag # e2.flag \/ e2.flag = "P"
    THEN [exc |-> "none", value |-> FALSE]
    ELSE LET t1 == get_txn_time(e1.meta, now1)
             t2 == get_txn_time(e2.meta, now2)
         IN  IF t1.exc # "none" THEN [exc |-> t1.exc, value |-> FALSE]
             ELSE IF t2.exc # "none" THEN [exc |-> t2.exc, value |-> FALSE]
             ELSE IF delta_seconds(t1.value, t2.value) > MaxDeltaSeconds
             THEN [exc |-> "none", value |-> FALSE]
             ELSE [exc |-> "none",
                   value |-> \E i \in 1..Len(e1.postings) :
                                 \E j \in 1..Len(e2.postings) :
                                     equal_post(e1.postings[i], e2.postings[j])]

\* The strings of the meta of the compared entries, as code points.
\* meta_5: "交易状态: 交易成功"
v_status == Str(<<20132,26131,29366,24577,58,32,20132,26131,25104,21151>>)
\* meta_9 of the first entry of TestNaiveComparator
v_143830 ==
    Str(<<20132,26131,26102,38388,58,32,50,48,50,49,45,48,51,45,48,54,32,49,
          52,58,51,56,58,51,48>>)
\* meta_2 of its second entry
v_143837 == Str(<<20132,26131,26102,38388,58,32,49,52,58,51,56,58,51,55>>)
\* 120 seconds after 14:38:30
v_144030 == Str(<<20132,26131,26102,38388,58,32,49,52,58,52,48,58,51,48>>)
\* 121 seconds after 14:38:30
v_144031 == Str(<<20132,26131,26102,38388,58,32,49,52,58,52,48,58,51,49>>)
\* just after midnight
v_000010 == Str(<<20132,26131,26102,38388,58,32,48,48,58,48,48,58,49,48>>)
\* just before midnight
v_235950 == Str(<<20132,26131,26102,38388,58,32,50,51,58,53,57,58,53,48>>)
\* not a time of day
v_143861 == Str(<<20132,26131,26102,38388,58,32,49,52,58,51,56,58,54,49>>)

\* The two postings of the entries of TestNaiveComparator, in hundredths of
\* a CNY, and the same with another amount.
Transfer(number) ==
    << Posting(Assets_CCB_4492, Amount(0 - number, s_CNY)),
       Posting(Assets_YuEBao, Amount(number, s_CNY)) >>

\* An entry of a statement file with the given strings in its meta.
Stamped(filename, flag, date, values, postings) ==
    Transaction(date, flag,
                new_metadata(filename, 1)
                    \o [n \in 1..Len(values) |-> <<"meta", values[n]>>],
                postings)

\* An entry that deduplicate_entries has marked.
Marked(entry) ==
    [entry EXCEPT !.meta = entry.meta \o << <<DUPLICATE_META, Bool(TRUE)>> >>]

\* The compared entries: the two of TestNaiveComparator, taken from two
\* statement files, and variations of their time, date, flag and postings.
alipay_143830 ==
    Stamped(f_alipay, "*", 6, <<v_status, v_143830>>, Transfer(1000000))
ccb_143837 == Stamped(f_ccb, "*", 6, <<v_143837>>, Transfer(1000000))

CompareEntries ==
    { alipay_143830, ccb_143837,
      Stamped(f_ccb, "*", 6, <<v_144030>>, Transfer(1000000)),
      Stamped(f_ccb, "*", 6, <<v_144031>>, Transfer(1000000)),
      Stamped(f_ccb, "*", 6, <<v_status>>, Transfer(1000000)),
      Stamped(f_alipay, "*", 6, << >>, Transfer(1000000)),
      Stamped(f_ccb, "*", 7, <<v_143837>>, Transfer(1000000)),
      Stamped(f_ccb, "!", 6, <<v_143837>>, Transfer(1000000)),
      Stamped(f_ccb, "P", 6, <<v_143837>>, Transfer(1000000)),
      Stamped(f_alipay, "P", 6, <<v_143830>>, Transfer(1000000)),
      Stamped(f_ccb, "*", 6, <<v_143837>>, Transfer(990000)),
      Marked(alipay_143830),
      Stamped(f_alipay, "*", 6, <<v_000010>>, Transfer(1000000)),
      Stamped(f_ccb, "*", 6, <<v_235950>>, Transfer(1000000)),
      Stamped(f_ccb, "*", 6, <<v_143861>>, Transfer(1000000)),
      Open(6, new_metadata(f_ccb, 1)) }

\* The readings of the clock: two consecutive seconds of one day, each at
\* its start and a microsecond later.
Clock == {DateTime(1, sec, us) : sec \in {52710, 52711}, us \in {0, 1}}

\* Reading b is not taken before reading a.
NotBefore(a, b) ==
    \/ a.second < b.second
    \/ a.second = b.second /\ a.microsecond <= b.microsecond

\* NaiveComparator()(e1, e2)
CallNaiveComparator(e1, e2) ==
    /\ SimFree
    /\ entry1' = e1
    /\ entry2' = e2
    /\ \E now1, now2 \in Clock :
          /\ NotBefore(now1, now2)
          /\ LET r == NaiveComparator(e1, e2, now1, now2) IN
             /\ simpc' = IF r.exc = "none" THEN "compared" ELSE "raised"
             /\ verdict' = IF r.exc = "none" THEN Bool(r.value)
                           ELSE <<"raised", r.exc>>
    /\ UNCHANGED <<entries, source_entries, comparator, window_days,
                   duplicates, entry_i, source_i>>
    /\ UNCHANGED ruleVars

(***************************************************************************)
(* The calls of similar.py                                                 *)
(***************************************************************************)
InitSimilar ==
    /\ fileExists = FALSE
    /\ config = EmptyDoc
    /\ ruler = "none"
    /\ initError = "none"
    /\ rules = << >>
    /\ pc = [c \in Callers |-> "idle"]
    /\ meta = [c \in Callers |-> m_empty]
    /\ func_map = [c \in Callers |-> NoFuncMap]
    /\ ans = [c \in Callers |-> RuleMeta]
    /\ idx = [c \in Callers |-> 0]
    /\ ret = [c \in Callers |-> NoResult]
    /\ err = [c \in Callers |-> "none"]
    /\ op = [c \in Callers |-> "none"]
    /\ SimIdle

NextSimilar ==
    \/ \E es \in EntryLists, src \in SourceLists, cmp \in Comparators,
          days \in 0..MaxWindow : FindSimilarEntries(es, src, cmp, days)
    \/ NextEntry
    \/ NextSource
    \/ FindReturn
    \/ \E e1, e2 \in CompareEntries : CallNaiveComparator(e1, e2)

SpecSimilar == InitSimilar /\ [][NextSimilar]_vars

\* The positions in source_entries of the transactions that are at most
\* window_days days before or after entry e and that the comparator accepts.
Qualifying(e) ==
    {j \in 1..Len(source_entries.list) :
        /\ is_txn(source_entries.list[j])
        /\ Abs(source_entries.list[j].date - e.date) <= window_days
        /\ CallComparator(comparator, e, source_entries.list[j])}

\* For the entries from position i on, in their order: the pair of each
\* transaction that has a qualifying source transaction with the first such.
RECURSIVE ExpectedPairs(_)
ExpectedPairs(i) ==
    IF i > Len(entries) THEN << >>
    ELSE (IF is_txn(entries[i]) /\ Qualifying(entries[i]) # {}
          THEN << <<entries[i],
                    source_entries.list[FirstIdx(Qualifying(entries[i]))]>> >>
          ELSE << >>)
         \o ExpectedPairs(i + 1)

(***************************************************************************)
(* C14: find_similar_entries returns, for each transaction of entries, at  *)
(* most one pair: the one with the first source transaction, in source     *)
(* order, dated within window_days days before or after the entry (both    *)
(* ends included, so window_days = 0 covers the same day) that the         *)
(* comparator accepts.  An entry without such a source transaction gives   *)
(* no pair, the pairs are in the order of entries, and a null source list  *)
(* gives the empty list.                                                   *)
(***************************************************************************)
C14_FirstInWindow ==
    simpc = "done" =>
        duplicates = IF source_entries.isNone THEN << >> ELSE ExpectedPairs(1)

\* A call with the default comparator returned one pair for two candidate
\* transactions: one has no qualifying source transaction; the other has
\* several, and is paired with the first, dated window_days days before it.
C14_Witness ==
    /\ simpc = "done"
    /\ comparator = "SimilarityComparator"
    /\ window_days > 0
    /\ Len(entries) = 2
    /\ is_txn(entries[1]) /\ Qualifying(entries[1]) = {}
    /\ is_txn(entries[2]) /\ Cardinality(Qualifying(entries[2])) > 1
    /\ Len(duplicates) = 1
    /\ duplicates[1][1] = entries[2]
    /\ duplicates[1][2].date = entries[2].date - window_days

\* The entry's meta holds a time of day that get_txn_time can read.
HasTime(e) ==
    /\ \E i \in 1..Len(e.meta) :
          IsStr(e.meta[i][2]) /\ pattern_match(e.meta[i][2][2]).ok
    /\ get_txn_time(e.meta, DateTime(1, 0, 0)).exc = "none"

\* That time of day, in seconds after midnight.
TimeOfDay(e) == get_txn_time(e.meta, DateTime(1, 0, 0)).value.second

\* The pair passes what the comparator looks at before the times: the two
\* entries are of different files, the candidate is not marked as a
\* duplicate, and the flag is not "P".
Screened(e1, e2) ==
    /\ Lookup(e1.meta, "filename") # Lookup(e2.meta, "filename")
    /\ ~ HasKey(e1.meta, DUPLICATE_META)
    /\ e2.flag # "P"

(***************************************************************************)
(* C15: NaiveComparator deems a candidate and an existing transaction      *)
(* duplicates when they have the same date, the same flag, times of day at *)
(* most 120 seconds apart and a posting with equal account and units,      *)
(* whichever of the two has the earlier time: a candidate stamped 14:38:30 *)
(* against an existing entry stamped 14:38:37 is a duplicate, as is the    *)
(* reverse.  Stated for pairs that pass the comparator's earlier screens.  *)
(* The code takes (t1 - t2).seconds, which is 86393 for the first of the   *)
(* two pairs, so this is violated.                                         *)
(***************************************************************************)
C15_DuplicateWithin120s ==
    ( /\ simpc = "compared"
      /\ Screened(entry1, entry2)
      /\ entry1.date = entry2.date
      /\ entry1.flag = entry2.flag
      /\ HasTime(entry1) /\ HasTime(entry2)
      /\ Abs(TimeOfDay(entry1) - TimeOfDay(entry2)) <= MaxDeltaSeconds
      /\ \E i \in 1..Len(entry1.postings) : \E j \in 1..Len(entry2.postings) :
            equal_post(entry1.postings[i], entry2.postings[j]) )
    => verdict = Bool(TRUE)

(***************************************************************************)
(* Ruler._match called on its own                                          *)
(***************************************************************************)
\* Rules beside those of RuleEntries: txn_meta alone, with a separator, with
\* a number and beside a payee; a field the column resolver does not map;
\* and two rules that set modifiers only.
rule_meta == [txn_meta |-> s_foo, target_account |-> Expenses_Misc]
rule_meta_sep == [txn_meta |-> s_mike_jim, seperator |-> s_comma]
rule_meta_num == [txn_meta |-> Num(5)]
rule_jim_meta == [payee |-> s_jim, txn_meta |-> s_foo]
rule_item == [payee |-> s_jim, item |-> s_foo]
rule_exclude_only == [txn_exclude |-> s_bar, target_account |-> Expenses_Misc]
rule_sep_only == [seperator |-> s_comma, method_account |-> Assets_Alipay]

MatchEntries ==
    RuleEntries
    \cup { rule_meta, rule_meta_sep, rule_meta_num, rule_jim_meta, rule_item,
           rule_exclude_only, rule_sep_only }

m_item == << <<"payee", s_jim>>, <<"item", s_foo>> >>

MatchRecords == Records \cup {m_item}

\* The func_map argument of _match: None, match's identity, a resolver.
MatchResolvers == {NoFuncMap, IdentityMap, ColsMap}

\* An engine that holds one rule, and no call made yet.
InitMatch ==
    /\ fileExists = TRUE
    /\ config \in {YamlDoc(Assets_FIXME, Expenses_FIXME, <<e>>) :
                       e \in MatchEntries}
    /\ InitOutcome(fileExists, config) = "none"
    /\ ruler = "constructed"
    /\ initError = "none"
    /\ rules = _convert_to_rules(config)
    /\ pc = [c \in Callers |-> "idle"]
    /\ meta = [c \in Callers |-> m_empty]
    /\ func_map = [c \in Callers |-> NoFuncMap]
    /\ ans = [c \in Callers |-> RuleMeta]
    /\ idx = [c \in Callers |-> 0]
    /\ ret = [c \in Callers |-> NoResult]
    /\ err = [c \in Callers |-> "none"]
    /\ op = [c \in Callers |-> "none"]
    /\ SimIdle

\* self._match(self.rules[n], m, fm)
Call_match(c, n, m, fm) ==
    /\ pc[c] = "idle"
    /\ LET r == _match(rules[n], m, fm) IN
       /\ rules' = [rules EXCEPT ![n]["is_mask"] = r.is_mask]
       /\ ret' = [ret EXCEPT
                    ![c] = IF r.exc = "none" THEN Bool(r.value) ELSE NoResult]
       /\ err' = [err EXCEPT ![c] = r.exc]
       /\ pc' = [pc EXCEPT
                   ![c] = IF r.exc = "none" THEN "done" ELSE "raised"]
    /\ op' = [op EXCEPT ![c] = "_match"]
    /\ idx' = [idx EXCEPT ![c] = n]
    /\ meta' = [meta EXCEPT ![c] = m]
    /\ func_map' = [func_map EXCEPT ![c] = fm]
    /\ UNCHANGED <<fileExists, config, ruler, initError, ans>>
    /\ UNCHANGED simVars

NextMatch ==
    \E c \in SeqCallers, n \in 1..Len(rules), m \in MatchRecords,
       fm \in MatchResolvers : Call_match(c, n, m, fm)

SpecMatch == InitMatch /\ [][NextMatch]_vars

\* The slices of a string.
Slices(s) ==
    {SubSeq(s, a, b) : a \in 1..(Len(s) + 1), b \in 0..Len(s)}

\* The candidate values of field k: the trimmed pieces of the field's value
\* when the rule has a separator, the value itself otherwise.
CandidateSet(rule, k) ==
    IF Truthy(rule[RULE_SEPERATOR])
    THEN {Str(v) : v \in {x \in Slices(rule[k][2]) :
                             IsPiece(x, rule[k][2], rule[RULE_SEPERATOR][2])}}
    ELSE {rule[k]}

\* Field k of the rule succeeds on record m under resolver fm.
FieldSucceeds(rule, k, m, fm) ==
    IF k \in SubstringFields
    THEN \E j \in 1..Len(m) : \E cand \in CandidateSet(rule, k) :
            /\ IsStr(m[j][2])
            /\ IsStr(cand)
            /\ Contains(m[j][2][2], cand[2])
    ELSE /\ ~ fm.isNone
         /\ KeyTruthy(fm.map[k])
         /\ HasKey(m, fm.map[k])
         /\ \E cand \in CandidateSet(rule, k) :
               /\ cand[1] = Lookup(m, fm.map[k])[1]
               /\ cand = Lookup(m, fm.map[k])

\* Caller c's call of _match has ended, by a return or an exception.
Matched(c) == op[c] = "_match" /\ pc[c] \in {"done", "raised"}

\* C16: _match returns True exactly when every field of the rule that is not
\* None, the two accounts, seperator and txn_exclude apart, succeeds: txn_meta
\* and txn_mask when some candidate is a substring of some string value of the
\* record under any key, every other field when the resolver names a key and
\* the record's value under it equals some candidate.  A rule with no such
\* field returns True on every record.
C16_MatchIffAllFieldsSucceed ==
    \A c \in Callers : Matched(c) =>
        ( (pc[c] = "done" /\ ret[c] = Bool(TRUE))
          <=> \A k \in PredFields(rules[idx[c]]) :
                 FieldSucceeds(rules[idx[c]], k, meta[c], func_map[c]) )

\* A rule with an equality field and a substring field returned True, the
\* substring found under a key no field of the rule resolves to.
C16_Witness ==
    \E c \in Callers :
        /\ Matched(c)
        /\ ret[c] = Bool(TRUE)
        /\ PredFields(rules[idx[c]]) = {RULE_PAYEE, RULE_TXN_META}
        /\ func_map[c] = IdentityMap
        /\ HasKey(meta[c], "note")

(***************************************************************************)
(* The mask state a scan of the record leaves                              *)
(***************************************************************************)
\* The positions of record m whose value is a string that holds a candidate
\* of the rule's txn_mask.
MaskHits(rule, m) ==
    {j \in 1..Len(m) :
        /\ IsStr(m[j][2])
        /\ \E cand \in CandidateSet(rule, RULE_TXN_MASK) :
              IsStr(cand) /\ Contains(m[j][2][2], cand[2])}

\* The last such value, in the order of meta.items(), does not hold the
\* rule's exclusion, or the rule has none (None or the empty string).
LastHitMasks(rule, m) ==
    LET v == m[LastIdx(MaskHits(rule, m))][2]
        exclude == rule[RULE_TXN_EXCLUDE]
    IN  ~ (Truthy(exclude) /\ Contains(v[2], exclude[2]))

\* Caller c's loop is at a rule with txn_mask.
AtMaskRule(c) ==
    /\ idx[c] \in 1..Len(rules)
    /\ ~ IsNone(rules[idx[c]][RULE_TXN_MASK])

\* The step in which _match returns True on a rule with txn_mask, and the
\* step that applies that rule.
C17_Step ==
    \A c \in Callers :
        LET rule == rules[idx[c]] IN
        /\ (pc[c] = "pass2" /\ AtMaskRule(c) /\ pc'[c] = "apply") =>
               rules'[idx[c]]["is_mask"] = Bool(LastHitMasks(rule, meta[c]))
        /\ (pc[c] = "apply" /\ AtMaskRule(c)) =>
               IF LastHitMasks(rule, meta[c])
               THEN /\ pc'[c] = "p2check"
                    /\ ans'[c] = [ans[c] EXCEPT !["is_mask"] = Bool(TRUE)]
               ELSE /\ idx'[c] = idx[c] + 1
                    /\ pc'[c] = Pass2At(idx[c] + 1)
                    /\ ans'[c]["is_mask"] = Bool(FALSE)
                    /\ \A f \in {RULE_MINUS_ACCOUNT, RULE_PLUS_ACCOUNT} :
                          ans'[c][f] = IF Truthy(rule[f]) THEN rule[f]
                                       ELSE ans[c][f]
                    /\ \A f \in FieldSet \
                                {RULE_MINUS_ACCOUNT, RULE_PLUS_ACCOUNT} :
                          ans'[c][f] = rule[f]

\* C17: when a rule with txn_mask matches, its mask state is True exactly
\* when the last value of the record, in scan order, that holds a txn_mask
\* candidate does not hold the rule's txn_exclude (or the rule has no
\* exclusion).  A False state applies the rule like any other matched rule and
\* the loop goes on to the next rule; a True state ends the loop with nothing
\* but is_mask written to the result.
C17_LastScannedValueDecides == [][C17_Step]_vars

\* A record that holds "foobaz" and then "foobar" has matched the mask rule,
\* which is about to be applied with mask state False.
C17_Witness ==
    \E c \in Callers :
        /\ pc[c] = "apply"
        /\ AtMaskRule(c)
        /\ meta[c] = m_baz_bar
        /\ MaskHits(rules[idx[c]], meta[c]) = {2, 3}
        /\ rules[idx[c]]["is_mask"] = Bool(FALSE)

(***************************************************************************)
(* Precedence of the second loop over the first                            *)
(***************************************************************************)
\* The general rules applied to caller c's result that give a method_account.
AppliedWithMethod(c) ==
    {j \in 1..Len(rules) :
        Applied(c, j) /\ Truthy(rules[j][RULE_MINUS_ACCOUNT])}

\* C18: when a method rule matches the record of a returned call, the
\* result's method_account is that of the last applied general rule that
\* gives one, wherever the method rule stands in the list; it is the (last)
\* matching method rule's account only when no applied general rule gives a
\* method_account.
C18_GeneralOverridesMethodRule ==
    \A c \in Callers : (Returned(c) /\ MethodMatched(c) # {}) =>
        ret[c][RULE_MINUS_ACCOUNT] =
            IF AppliedWithMethod(c) # {}
            THEN rules[LastIdx(AppliedWithMethod(c))][RULE_MINUS_ACCOUNT]
            ELSE rules[LastIdx(MethodMatched(c))][RULE_MINUS_ACCOUNT]

\* A call has returned the account of a general rule that stands before the
\* matching method rule in the list, and the two accounts differ.
C18_Witness ==
    \E c \in Callers :
        /\ Returned(c)
        /\ MethodMatched(c) # {}
        /\ AppliedWithMethod(c) # {}
        /\ LastIdx(AppliedWithMethod(c)) < LastIdx(MethodMatched(c))
        /\ ret[c][RULE_MINUS_ACCOUNT] #
              rules[LastIdx(MethodMatched(c))][RULE_MINUS_ACCOUNT]

====
